---- MODULE Spec2Model ----
(***************************************************************************)
(* X-ray rig safety core.                                                  *)
(*                                                                         *)
(*   Spec    the Controller of src/xavier/controller.py: one command       *)
(*           thread (arm, disarm, expose, start_preview, stop_preview,     *)
(*           reset_fault) running against the three daemon threads the     *)
(*           constructor starts (_loop_heartbeat, _loop_hv, _loop_preview) *)
(*           and against the interlock inputs.  The class takes no lock,   *)
(*           so every read or write of self.state and every output write   *)
(*           is a separate step, except where consecutive accesses are     *)
(*           merged as noted at the action.                                *)
(*   SpecWd  the watchdog process of src/hv_kill_daemon.py against the     *)
(*           GUI process that writes the heartbeat file, the shutdown flag *)
(*           and the relay pin.                                            *)
(*   SpecMot the actuator subsystem of src/xavier/stepper_Motor.py as      *)
(*           driven by a script, by the motor test menu and by the GUI.    *)
(*   SpecEs  the E-stop module of src/xavier/gpio_estop.py: its monitor    *)
(*           thread against a caller and the switch.                       *)
(*   SpecLed the indicator path Controller._apply_leds: the debounced      *)
(*           interlock reads of all_ok() and LedPanel.apply.               *)
(*   SpecHvm the HV monitor Controller._loop_hv taken line by line, with   *)
(*           its notifications, against the command thread.                *)
(*   SpecLim the drive-until-limit calls of stepper_Motor.py poll by poll,  *)
(*           with the thread of the call running on; SpecAx adds the       *)
(*           full traverse of Axis 2.                                      *)
(*   SpecAdc the HV reading of src/xavier/adc_reader.py and the HV monitor *)
(*           of a controller at rest.                                      *)
(*   SpecCon the console program src/xavier/main.py against the monitor    *)
(*           thread of gpio_estop.                                         *)
(*   SpecGx  the X-ray capture of the GUI and its ADC check.               *)
(*   SpecWdError  SpecWd with a poll iteration that raises.                *)
(***************************************************************************)
EXTENDS Naturals, Integers, Sequences, FiniteSets, TLC

VARIABLES
    state,            \* Controller.state
    hv,               \* HV relay channel as last written (TRUE = energized)
    cam_trigger,      \* cfg.pins.cam_trigger output level
    cam_preview,      \* cfg.pins.cam_preview output level
    preview_deadline, \* Controller._preview_deadline: "None", "set" (in the future), "past"
    estop,            \* input level of the E-stop pin, 1 = HIGH = safe
    door,             \* input level of the door pin
    hb_in,            \* input level of the heartbeat-in pin
    pc,               \* position of the command thread
    cmd,              \* the command the command thread runs or ran last
    arg,              \* its argument: hold ticks left (expose), 1/0 timeout given (start_preview)
    ret,              \* return value of the last finished command
    hbpc,             \* position of _loop_heartbeat
    hvpc,             \* position of _loop_hv
    pvpc,             \* position of _loop_preview
    wdpc,             \* position of the watchdog process
    pin,              \* level of GPIO 23, the HV relay pin (0 = LOW, 1 = HIGH)
    hv_allowed,       \* hv_kill_daemon.hv_allowed
    alive,            \* watchdog local: gui_is_alive() as read, "unset" before the first read
    shutdown_mode,    \* watchdog local: safe_shutdown_requested() as read, or "unset"
    hv_state,         \* watchdog local: GPIO.input(HV_PIN) as read, -1 before the first read
    hbfile,           \* /tmp/xray_heartbeat: "missing", "empty" (truncated), "ts"
    hbage,            \* age of the timestamp in the file, in CHECK_RATE units
    flag,             \* /tmp/xray_shutdown_flag exists
    old_flag_removed, \* this start of the GUI found and removed an old flag
    gui,              \* GUI process: "off", "run", "wr" (inside send_heartbeat),
                      \* "closing" (inside closeEvent), "crashed"
    app,              \* the program that imported stepper_Motor: "none", "lib" (a
                      \* script calling its functions), "menu" (motor_test.main),
                      \* "gui" (Interface.MainWindow), "off" (the GUI has closed)
    sw1,              \* level of the Axis 1 OPEN limit switch (GPIO 17), 1 = not pressed
    sw2,              \* level of the Axis 1 CLOSE limit switch (GPIO 18)
    ser,              \* number of step commands written to the serial link
    m1pc,             \* position in an Axis 1 loop: "idle", "fwd", "bwd"
    m1caller,         \* the handler that called the running Axis 1 loop
    m3_index,         \* stepper_Motor.m3_index
    m3_total_steps,   \* stepper_Motor.m3_total_steps
    m3_back,          \* backward steps issued by the last motor3_home()
    rot_n,            \* history: motor3_rotate_45() calls since the last home
    index_at_home,    \* history: m3_index at the last home (at import before any)
    homed,            \* history: Axis 3 is homed (home has run, no rotation since)
    motor3_is_home,   \* motor_test.motor3_is_home
    has_closed_once,  \* MainWindow.has_closed_once
    armed,            \* MainWindow.armed
    hv_fault_active,  \* MainWindow.hv_fault_active
    es_pin,           \* level of GPIO 26, the E-stop input of gpio_estop (1 = HIGH = safe)
    RUN,              \* gpio_estop._RUN
    THREAD,           \* gpio_estop._THREAD: the thread it refers to, 0 for None
    ON_FAULT,         \* gpio_estop._ON_FAULT is set (a callback is registered)
    FAULT_LATCH,      \* gpio_estop._FAULT_LATCH
    mon,              \* per monitor thread: position in _monitor_loop and its locals
    callpc,           \* position of the thread that calls the module's functions
    cf_v1,            \* clear_fault's first sample (v1 of its _read_high_stable)
    cf_ret,           \* return value of the last clear_fault(), "unset" before any
    cb_calls,         \* history: on_fault() calls since the switch was last pressed
    lpc,              \* position of the thread inside Controller._apply_leds
    l_alarm,          \* argument alarm of LedPanel.apply
    l_ok,             \* argument interlocks_ok: the value of all_ok()
    l_state,          \* argument state, "none" before the first call
    l_v1,             \* first sample of the gpio.read in progress
    rd,               \* return value of the last gpio.read, -1 before any
    samples,          \* history: the levels sampled by the present all_ok(), in order
    led,              \* levels of the four LED pins
    hmpc,             \* position of _loop_hv taken line by line
    hv_alarm,         \* Controller._hv_alarm, the local alarm of the present pass
    prev_alarm,       \* local prev_alarm of _loop_hv: "None", "True", "False"
    alarms,           \* history: alarm of the sample before (if any) and of this one
    alarm_noted,      \* history: this sample produced an alarm-state notification
    owed,             \* history: _loop_hv changed the state to Fault and has not
                      \* notified yet: "idle"/"busy", the command thread then; or "none"
    axpc,             \* position in the actuator call in progress, "idle" when none runs
    lim_in,           \* level of the limit input that call polls, 1 = not pressed
    m2_index,         \* stepper_Motor.m2_index
    steps_taken,      \* local steps_taken of motor2_home_to_limit3, then its return value
    up_i,             \* iterations done by the for loop of motor2_move_full_up
    sent,             \* history: steps or step commands issued by the present call
    after,            \* history: of those, the ones issued since the limit input asserted
    adc_in,           \* history: the code read from the ADC and whether the bus
                      \* raised; raw = -1 before any read
    raw_v,            \* return value of the last _read_adc_voltage, in 1/32767 mV
    hv_read,          \* return value of the last read_hv_voltage, in 1/32767 V
    hv_ok,            \* first component of the last hv_status_ok
    mpc,              \* position of the main thread of main.py
    holder,           \* the caller of the emergency_hold_blocking in progress, or "none"
    relay,            \* level of GPIO 23 as relay.py drives it
    chk,              \* the last faulted() the main thread read
    xpc,              \* position of the Qt main thread in on_xray, "idle" in the event loop
    hv_active,        \* MainWindow.hv_active
    evaluated,        \* history: check_adc_safety has judged a reading in this capture
    last_check        \* history: how the last check_adc_safety ended

ctlVars == <<state, hv, cam_trigger, cam_preview, preview_deadline, estop, door,
             hb_in, pc, cmd, arg, ret, hbpc, hvpc, pvpc>>
wdVars == <<wdpc, pin, hv_allowed, alive, shutdown_mode, hv_state, hbfile, hbage,
            flag, gui, old_flag_removed>>
motVars == <<app, sw1, sw2, ser, m1pc, m1caller, m3_index, m3_total_steps, m3_back,
             rot_n, index_at_home, homed, motor3_is_home, has_closed_once, armed,
             hv_fault_active>>
esVars == <<es_pin, RUN, THREAD, ON_FAULT, FAULT_LATCH, mon, callpc, cf_v1, cf_ret,
            cb_calls>>
ledVars == <<lpc, l_alarm, l_ok, l_state, l_v1, rd, samples, led>>
hvmVars == <<hmpc, hv_alarm, prev_alarm, alarms, alarm_noted, owed>>
axVars == <<axpc, lim_in, m2_index, steps_taken, up_i, sent, after>>
adcVars == <<adc_in, raw_v, hv_read, hv_ok>>
conVars == <<mpc, holder, relay, chk>>
gxVars == <<xpc, hv_active, evaluated, last_check>>
vars == <<ctlVars, wdVars, motVars, esVars, ledVars, hvmVars, axVars, adcVars, conVars,
          gxVars>>

\* What a controller step leaves alone outside the controller.
otherThanCtl == <<wdVars, motVars, esVars, ledVars, hvmVars,
                  axVars,
                  adcVars,
                  conVars,
                  gxVars>>
\* What a watchdog or GUI-process step leaves alone outside them.
otherThanWd == <<ctlVars, motVars, esVars, ledVars, hvmVars,
                  axVars,
                  adcVars,
                  conVars,
                  gxVars>>
\* What a step of the actuator subsystem leaves alone outside it.
otherThanMot == <<ctlVars, wdVars, esVars, ledVars, hvmVars,
                  axVars,
                  adcVars,
                  conVars,
                  gxVars>>
\* What a step of the E-stop module leaves alone outside it.
otherThanEs == <<ctlVars, wdVars, motVars, ledVars, hvmVars,
                  axVars,
                  adcVars,
                  conVars,
                  gxVars>>
\* What a step of the indicator path leaves alone: it reads the interlock
\* inputs and writes the LED pins.
otherThanLed == <<state, hv, cam_trigger, cam_preview, preview_deadline, pc, cmd,
                  arg, ret, hbpc, hvpc, pvpc, wdVars, motVars, esVars, hvmVars,
                  axVars,
                  adcVars,
                  conVars,
                  gxVars>>
\* What a step of the HV monitor taken line by line leaves alone: it writes
\* the state and the outputs.
otherThanHvm == <<preview_deadline, estop, door, hb_in, pc, cmd, arg, ret, hbpc,
                  hvpc, pvpc, wdVars, motVars, esVars, ledVars,
                  axVars,
                  adcVars,
                  conVars,
                  gxVars>>
\* What a step of a limit-driven actuator call leaves alone.
otherThanAx == <<ctlVars, wdVars, motVars, esVars, ledVars, hvmVars,
                  adcVars,
                  conVars,
                  gxVars>>
\* What a read of the HV ADC through adc_reader leaves alone.
otherThanAdc == <<ctlVars, wdVars, motVars, esVars, ledVars, hvmVars, axVars,
                  conVars,
                  gxVars>>
\* What the console program leaves alone, the E-stop module apart.
otherThanCon == <<ctlVars, wdVars, motVars, esVars, ledVars, hvmVars, axVars, adcVars,
                  gxVars>>
\* What an X-ray capture of the GUI and its ADC check leave alone, the relay
\* and the flags of the GUI apart.
otherThanGx == <<ctlVars, wdVars, motVars, esVars, ledVars, hvmVars, axVars, adcVars,
                 conVars>>

(***************************************************************************)
(* Bounds                                                                  *)
(***************************************************************************)
\* Longest exposure, in iterations of the hold loop.
MaxShutter == 2
\* Largest heartbeat age that is told apart (older ages read the same).
MaxAge == 5

(***************************************************************************)
(* Interlocks                                                              *)
(***************************************************************************)
\* GPIO.LOW and GPIO.HIGH.
LOW == 0
HIGH == 1

States == {"IDLE", "ARMED", "EXPOSE", "PREVIEW", "FAULT"}

\* A read that trusts its first sample.
read_FirstSampleOnly(v1, v2) == IF v1 = HIGH THEN 1 ELSE 0

\* gpio.read: two samples a debounce interval apart; 1 only if both are 1.
read(v1, v2) == IF v1 = HIGH /\ v2 = HIGH THEN 1 ELSE 0

\* A pin is stable over the debounce interval of one read: both samples see
\* the present level.
estop_ok == read(estop, estop) = 1
door_ok == read(door, door) = 1
heartbeat_ok == read(hb_in, hb_in) = 1
all_ok == estop_ok /\ door_ok /\ heartbeat_ok

\* Config.adc.cut_hv_on_alarm, as deployed.
cut_hv_on_alarm == TRUE

(***************************************************************************)
(* Output writes shared by several paths                                   *)
(***************************************************************************)
\* relays.write_channel(hv_channel, False) and both trigger lines LOW:
\* the writes of _fault (197-199) and of disarm (72-74).
OutputsLow ==
    /\ hv' = FALSE
    /\ cam_trigger' = FALSE
    /\ cam_preview' = FALSE

inputs == <<estop, door, hb_in>>
outputs == <<hv, cam_trigger, cam_preview>>
loops == <<hbpc, hvpc, pvpc>>

\* A command returns.
Return(r) ==
    /\ pc' = "idle"
    /\ ret' = r

\* A command is entered from the idle command thread.
Enter(c, a) ==
    /\ pc = "idle"
    /\ cmd' = c
    /\ arg' = a

(***************************************************************************)
(* arm()                                        controller.py 66-69        *)
(***************************************************************************)
\* Lines 67-68: both guards.
Arm ==
    /\ Enter("arm", 0)
    /\ IF state = "FAULT" \/ ~all_ok
         THEN Return("false")
         ELSE pc' = "arm_set" /\ ret' = "none"
    /\ UNCHANGED <<state, outputs, preview_deadline, inputs, loops, otherThanCtl>>

\* Line 69.
ArmSet ==
    /\ pc = "arm_set"
    /\ state' = "ARMED"
    /\ Return("true")
    /\ UNCHANGED <<outputs, preview_deadline, inputs, cmd, arg, loops, otherThanCtl>>

(***************************************************************************)
(* disarm()                                     controller.py 71-78        *)
(***************************************************************************)
\* What disarm() reads and writes.
view ==
    [state |-> state, hv |-> hv, cam_trigger |-> cam_trigger,
     cam_preview |-> cam_preview, preview_deadline |-> preview_deadline]

Apply(v) ==
    /\ state' = v.state
    /\ hv' = v.hv
    /\ cam_trigger' = v.cam_trigger
    /\ cam_preview' = v.cam_preview
    /\ preview_deadline' = v.preview_deadline

\* Lines 72-74.
disarm_off(v) == [v EXCEPT !.hv = FALSE, !.cam_trigger = FALSE, !.cam_preview = FALSE]

\* disarm() without the Fault test of line 75.
disarm_guard_Always(v) == TRUE

\* Line 75.
disarm_guard(v) == v.state # "FAULT"

\* Lines 76-77.
disarm_set(v) == [v EXCEPT !.state = "IDLE", !.preview_deadline = "None"]

\* disarm() run with no other thread in between.
disarm(v) ==
    LET off == disarm_off(v)
    IN  IF disarm_guard(off) THEN disarm_set(off) ELSE off

\* Lines 72-74.
Disarm ==
    /\ Enter("disarm", 0)
    /\ Apply(disarm_off(view))
    /\ pc' = "d_chk"
    /\ ret' = "none"
    /\ UNCHANGED <<inputs, loops, otherThanCtl>>

\* Line 75, the read of self.state, in a disarm whose caller returns r.
DisarmChkAt(at, set, r) ==
    /\ pc = at
    /\ IF disarm_guard(view)
         THEN pc' = set /\ ret' = ret
         ELSE Return(r)
    /\ UNCHANGED <<state, outputs, preview_deadline, inputs, cmd, arg, loops, otherThanCtl>>

\* Lines 76-77, the writes.
DisarmSetAt(set, next) ==
    /\ pc = set
    /\ Apply(disarm_set(view))
    /\ pc' = next
    /\ UNCHANGED <<inputs, cmd, arg, loops, otherThanCtl>>

DisarmChk == DisarmChkAt("d_chk", "d_set", "none")

DisarmSet ==
    /\ DisarmSetAt("d_set", "idle")
    /\ ret' = "none"

(***************************************************************************)
(* _fault(msg) on the command thread            controller.py 196-202      *)
(***************************************************************************)
\* Line 200 and the caller's `return False`.
CmdFaultSet ==
    /\ pc \in {"e_fault", "e_cut", "p_fault"}
    /\ state' = "FAULT"
    /\ Return("false")
    /\ UNCHANGED <<outputs, preview_deadline, inputs, cmd, arg, loops, otherThanCtl>>

(***************************************************************************)
(* expose(shutter_s)                            controller.py 80-106       *)
(* fire_camera_gpio keeps its default, True.                               *)
(***************************************************************************)
\* Lines 82-85, the guards and the read of self.state that decides on arm().
Expose ==
    /\ \E shutter \in 1..MaxShutter : Enter("expose", shutter)
    /\ IF state \notin {"ARMED", "IDLE"} \/ ~all_ok
         THEN Return("false")
         ELSE /\ pc' = IF state = "IDLE" THEN "e_arm" ELSE "e_set"
              /\ ret' = "none"
    /\ UNCHANGED <<state, outputs, preview_deadline, inputs, loops, otherThanCtl>>

\* arm() called from line 85 or 112: its guards, lines 67-68.
InnerArmAt(at, set) ==
    /\ pc = at
    /\ IF state = "FAULT" \/ ~all_ok
         THEN Return("false")
         ELSE pc' = set /\ ret' = ret
    /\ UNCHANGED <<state, outputs, preview_deadline, inputs, cmd, arg, loops, otherThanCtl>>

\* Its line 69.
InnerArmSetAt(set, next) ==
    /\ pc = set
    /\ state' = "ARMED"
    /\ pc' = next
    /\ UNCHANGED <<outputs, preview_deadline, inputs, cmd, arg, ret, loops, otherThanCtl>>

ExposeArm == InnerArmAt("e_arm", "e_armset")

ExposeArmSet == InnerArmSetAt("e_armset", "e_set")

\* Line 87.
ExposeSet ==
    /\ pc = "e_set"
    /\ state' = "EXPOSE"
    /\ pc' = "e_hvon"
    /\ UNCHANGED <<outputs, preview_deadline, inputs, cmd, arg, ret, loops, otherThanCtl>>

\* _hv_on() at the given position (lines 134-137); on failure the output
\* writes of _fault (197-199).
HvOnAt(at, ok, bad) ==
    /\ pc = at
    /\ IF all_ok
         THEN /\ hv' = TRUE
              /\ pc' = ok
              /\ UNCHANGED <<cam_trigger, cam_preview>>
         ELSE /\ OutputsLow
              /\ pc' = bad
    /\ UNCHANGED <<state, preview_deadline, inputs, cmd, arg, ret, loops, otherThanCtl>>

\* Line 90.
ExposeHvOn == HvOnAt("e_hvon", "e_pre", "e_fault")

\* Lines 91-94: the pre-roll has elapsed, the trigger is asserted.
ExposeTrigger ==
    /\ pc = "e_pre"
    /\ cam_trigger' = TRUE
    /\ pc' = "e_hold"
    /\ UNCHANGED <<state, hv, cam_preview, preview_deadline, inputs, cmd, arg, ret,
                   loops, otherThanCtl>>

\* The hold loop without the interlock poll of lines 96-98.
ExposeHold_NoPoll ==
    /\ pc = "e_hold"
    /\ IF arg = 0
         THEN /\ cam_trigger' = FALSE
              /\ pc' = "e_post"
              /\ UNCHANGED <<hv, cam_preview, arg>>
         ELSE /\ arg' = arg - 1
              /\ UNCHANGED <<pc, outputs>>
    /\ UNCHANGED <<state, preview_deadline, inputs, cmd, ret, loops, otherThanCtl>>

\* Lines 95-101: one pass of the hold loop.  arg counts the passes left; the
\* pass that finds the time up clears the trigger (101).  A pass that finds
\* an interlock not ok writes HV off and the trigger LOW (97) and runs the
\* output writes of _fault (197-199).
ExposeHold ==
    /\ pc = "e_hold"
    /\ IF arg = 0
         THEN /\ cam_trigger' = FALSE
              /\ pc' = "e_post"
              /\ UNCHANGED <<hv, cam_preview, arg>>
         ELSE IF ~all_ok
           THEN /\ OutputsLow
                /\ pc' = "e_cut"
                /\ UNCHANGED arg
           ELSE /\ arg' = arg - 1
                /\ UNCHANGED <<pc, outputs>>
    /\ UNCHANGED <<state, preview_deadline, inputs, cmd, ret, loops, otherThanCtl>>

\* Lines 102-104: the post-hold has elapsed; _hv_off() and the output writes
\* of disarm() (72-74).
ExposeHvOff ==
    /\ pc = "e_post"
    /\ OutputsLow
    /\ pc' = "e_dchk"
    /\ UNCHANGED <<state, preview_deadline, inputs, cmd, arg, ret, loops, otherThanCtl>>

\* disarm() from line 104, then lines 105-106.
ExposeDisarmChk == DisarmChkAt("e_dchk", "e_dset", "true")

ExposeDisarmSet ==
    /\ DisarmSetAt("e_dset", "idle")
    /\ ret' = "true"

(***************************************************************************)
(* start_preview(max_seconds)                   controller.py 108-118      *)
(***************************************************************************)
\* start_preview() without the state test of line 110.
StartPreview_NoStateGuard ==
    /\ \E timeout \in 0..1 : Enter("start_preview", timeout)
    /\ IF state = "FAULT" \/ ~all_ok
         THEN Return("false")
         ELSE /\ pc' = IF state = "IDLE" THEN "p_arm" ELSE "p_hvon"
              /\ ret' = "none"
    /\ UNCHANGED <<state, outputs, preview_deadline, inputs, loops, otherThanCtl>>

\* Lines 109-112, as in expose.
StartPreview ==
    /\ \E timeout \in 0..1 : Enter("start_preview", timeout)
    /\ IF state \notin {"ARMED", "IDLE"} \/ ~all_ok
         THEN Return("false")
         ELSE /\ pc' = IF state = "IDLE" THEN "p_arm" ELSE "p_hvon"
              /\ ret' = "none"
    /\ UNCHANGED <<state, outputs, preview_deadline, inputs, loops, otherThanCtl>>

PreviewArm == InnerArmAt("p_arm", "p_armset")

PreviewArmSet == InnerArmSetAt("p_armset", "p_hvon")

\* Line 113.
PreviewHvOn == HvOnAt("p_hvon", "p_prev", "p_fault")

\* Line 114.
PreviewEnable ==
    /\ pc = "p_prev"
    /\ cam_preview' = TRUE
    /\ pc' = "p_set"
    /\ UNCHANGED <<state, hv, cam_trigger, preview_deadline, inputs, cmd, arg, ret,
                   loops, otherThanCtl>>

\* Line 115.
PreviewSet ==
    /\ pc = "p_set"
    /\ state' = "PREVIEW"
    /\ pc' = "p_dl"
    /\ UNCHANGED <<outputs, preview_deadline, inputs, cmd, arg, ret, loops, otherThanCtl>>

\* Lines 116-118.
PreviewDeadline ==
    /\ pc = "p_dl"
    /\ preview_deadline' = IF arg # 0 THEN "set" ELSE "None"
    /\ Return("true")
    /\ UNCHANGED <<state, outputs, inputs, cmd, arg, loops, otherThanCtl>>

(***************************************************************************)
(* stop_preview()                               controller.py 120-126      *)
(***************************************************************************)
\* stop_preview() that clears the preview line and leaves the relay.
StopPreview_LeavesHv ==
    /\ Enter("stop_preview", 0)
    /\ IF state # "PREVIEW"
         THEN Return("none") /\ UNCHANGED outputs
         ELSE /\ cam_preview' = FALSE
              /\ UNCHANGED <<hv, cam_trigger>>
              /\ pc' = "s_dchk" /\ ret' = "none"
    /\ UNCHANGED <<state, preview_deadline, inputs, loops, otherThanCtl>>

\* Lines 121-124: the guard, then preview line LOW, _hv_off() and the output
\* writes of disarm().
StopPreview ==
    /\ Enter("stop_preview", 0)
    /\ IF state # "PREVIEW"
         THEN Return("none") /\ UNCHANGED outputs
         ELSE OutputsLow /\ pc' = "s_dchk" /\ ret' = "none"
    /\ UNCHANGED <<state, preview_deadline, inputs, loops, otherThanCtl>>

\* disarm() from line 124; whatever it finds, line 125 follows.
StopDisarmChk ==
    /\ pc = "s_dchk"
    /\ pc' = IF disarm_guard(view) THEN "s_dset" ELSE "s_dl"
    /\ UNCHANGED <<state, outputs, preview_deadline, inputs, cmd, arg, ret, loops,
                   otherThanCtl>>

StopDisarmSet ==
    /\ DisarmSetAt("s_dset", "s_dl")
    /\ ret' = ret

\* Line 125.
StopDeadline ==
    /\ pc = "s_dl"
    /\ preview_deadline' = "None"
    /\ Return("none")
    /\ UNCHANGED <<state, outputs, inputs, cmd, arg, loops, otherThanCtl>>

(***************************************************************************)
(* reset_fault()                                controller.py 128-131      *)
(***************************************************************************)
\* reset_fault() without the interlock check of line 130.
ResetFault_NoInterlock ==
    /\ Enter("reset_fault", 0)
    /\ IF state # "FAULT"
         THEN Return("false")
         ELSE pc' = "r_set" /\ ret' = "none"
    /\ UNCHANGED <<state, outputs, preview_deadline, inputs, loops, otherThanCtl>>

\* Lines 129-130.
ResetFault ==
    /\ Enter("reset_fault", 0)
    /\ IF state # "FAULT" \/ ~all_ok
         THEN Return("false")
         ELSE pc' = "r_set" /\ ret' = "none"
    /\ UNCHANGED <<state, outputs, preview_deadline, inputs, loops, otherThanCtl>>

\* Line 131.
ResetSet ==
    /\ pc = "r_set"
    /\ state' = "IDLE"
    /\ Return("true")
    /\ UNCHANGED <<outputs, preview_deadline, inputs, cmd, arg, loops, otherThanCtl>>

(***************************************************************************)
(* _loop_heartbeat                              controller.py 143-149      *)
(***************************************************************************)
\* A pass that raises the fault in the hazardous states only.
HbPoll_HazardOnly ==
    /\ hbpc = "poll"
    /\ IF state \in {"EXPOSE", "PREVIEW"} /\ ~heartbeat_ok
         THEN OutputsLow /\ hbpc' = "set"
         ELSE UNCHANGED outputs /\ hbpc' = "sleep"
    /\ UNCHANGED <<state, preview_deadline, inputs, pc, cmd, arg, ret, hvpc, pvpc,
                   otherThanCtl>>

\* One pass: line 146 and, when it calls _fault, that call's output writes.
HbPoll ==
    /\ hbpc = "poll"
    /\ IF state # "FAULT" /\ ~heartbeat_ok
         THEN OutputsLow /\ hbpc' = "set"
         ELSE UNCHANGED outputs /\ hbpc' = "sleep"
    /\ UNCHANGED <<state, preview_deadline, inputs, pc, cmd, arg, ret, hvpc, pvpc,
                   otherThanCtl>>

\* Line 200 in that call.
HbFaultSet ==
    /\ hbpc = "set"
    /\ state' = "FAULT"
    /\ hbpc' = "sleep"
    /\ UNCHANGED <<outputs, preview_deadline, inputs, pc, cmd, arg, ret, hvpc, pvpc,
                   otherThanCtl>>

\* Line 149: heartbeat_period_s has elapsed.
HbSleep ==
    /\ hbpc = "sleep"
    /\ hbpc' = "poll"
    /\ UNCHANGED <<state, outputs, preview_deadline, inputs, pc, cmd, arg, ret, hvpc,
                   pvpc, otherThanCtl>>

(***************************************************************************)
(* _loop_hv                                     controller.py 151-169      *)
(***************************************************************************)
\* One sample: alarm is v >= threshold (158); on line 162 _hv_off() and the
\* output writes of _fault.
HvSample ==
    /\ hvpc = "sample"
    /\ \E alarm \in BOOLEAN :
         IF alarm /\ cut_hv_on_alarm /\ state \in {"EXPOSE", "PREVIEW"}
           THEN OutputsLow /\ hvpc' = "set"
           ELSE UNCHANGED <<outputs, hvpc>>
    /\ UNCHANGED <<state, preview_deadline, inputs, pc, cmd, arg, ret, hbpc, pvpc,
                   otherThanCtl>>

\* Line 200 in that call.
HvFaultSet ==
    /\ hvpc = "set"
    /\ state' = "FAULT"
    /\ hvpc' = "sample"
    /\ UNCHANGED <<outputs, preview_deadline, inputs, pc, cmd, arg, ret, hbpc, pvpc,
                   otherThanCtl>>

(***************************************************************************)
(* _loop_preview                                controller.py 171-176      *)
(***************************************************************************)
\* One pass: lines 173-175 and, in stop_preview, lines 121-124 up to the
\* output writes of disarm().
PvPoll ==
    /\ pvpc = "poll"
    /\ IF state = "PREVIEW" /\ preview_deadline = "past"
         THEN OutputsLow /\ pvpc' = "dchk"
         ELSE UNCHANGED <<outputs, pvpc>>
    /\ UNCHANGED <<state, preview_deadline, inputs, pc, cmd, arg, ret, hbpc, hvpc,
                   otherThanCtl>>

\* Line 75 on the preview thread.
PvDisarmChk ==
    /\ pvpc = "dchk"
    /\ pvpc' = IF disarm_guard(view) THEN "dset" ELSE "dl"
    /\ UNCHANGED <<state, outputs, preview_deadline, inputs, pc, cmd, arg, ret, hbpc,
                   hvpc, otherThanCtl>>

\* Lines 76-77 on the preview thread.
PvDisarmSet ==
    /\ pvpc = "dset"
    /\ Apply(disarm_set(view))
    /\ pvpc' = "dl"
    /\ UNCHANGED <<inputs, pc, cmd, arg, ret, hbpc, hvpc, otherThanCtl>>

\* Line 125 on the preview thread.
PvDeadline ==
    /\ pvpc = "dl"
    /\ preview_deadline' = "None"
    /\ pvpc' = "poll"
    /\ UNCHANGED <<state, outputs, inputs, pc, cmd, arg, ret, hbpc, hvpc, otherThanCtl>>

(***************************************************************************)
(* Environment of the controller                                           *)
(***************************************************************************)
\* An interlock input changes level.
EstopChanges ==
    /\ estop' = 1 - estop
    /\ UNCHANGED <<state, outputs, preview_deadline, door, hb_in, pc, cmd, arg, ret,
                   loops, otherThanCtl>>

DoorChanges ==
    /\ door' = 1 - door
    /\ UNCHANGED <<state, outputs, preview_deadline, estop, hb_in, pc, cmd, arg, ret,
                   loops, otherThanCtl>>

HeartbeatChanges ==
    /\ hb_in' = 1 - hb_in
    /\ UNCHANGED <<state, outputs, preview_deadline, estop, door, pc, cmd, arg, ret,
                   loops, otherThanCtl>>

\* time.time() reaches the preview deadline.
DeadlinePasses ==
    /\ preview_deadline = "set"
    /\ preview_deadline' = "past"
    /\ UNCHANGED <<state, outputs, inputs, pc, cmd, arg, ret, loops, otherThanCtl>>

(***************************************************************************)
(* Initial state and the controller's specification                        *)
(***************************************************************************)
\* Controller.__init__ (28-59): outputs LOW, state IDLE, the loops started.
InitCtl ==
    /\ state = "IDLE"
    /\ hv = FALSE
    /\ cam_trigger = FALSE
    /\ cam_preview = FALSE
    /\ preview_deadline = "None"
    /\ estop = 1
    /\ door = 1
    /\ hb_in = 1
    /\ pc = "idle"
    /\ cmd = "none"
    /\ arg = 0
    /\ ret = "none"
    /\ hbpc = "poll"
    /\ hvpc = "sample"
    /\ pvpc = "poll"

\* The watchdog and the GUI process before either is started.
InitWd ==
    /\ wdpc = "off"
    /\ pin = 0
    /\ hv_allowed = TRUE
    /\ alive = "unset"
    /\ shutdown_mode = "unset"
    /\ hv_state = -1
    /\ hbfile = "missing"
    /\ hbage = 0
    /\ flag = FALSE
    /\ gui = "off"
    /\ old_flag_removed = FALSE

Command ==
    \/ Arm \/ ArmSet
    \/ Disarm \/ DisarmChk \/ DisarmSet
    \/ Expose \/ ExposeArm \/ ExposeArmSet \/ ExposeSet \/ ExposeHvOn
    \/ ExposeTrigger \/ ExposeHold \/ ExposeHvOff \/ ExposeDisarmChk \/ ExposeDisarmSet
    \/ StartPreview \/ PreviewArm \/ PreviewArmSet \/ PreviewHvOn \/ PreviewEnable
    \/ PreviewSet \/ PreviewDeadline
    \/ StopPreview \/ StopDisarmChk \/ StopDisarmSet \/ StopDeadline
    \/ ResetFault \/ ResetSet
    \/ CmdFaultSet

Monitor ==
    \/ HbPoll \/ HbFaultSet \/ HbSleep
    \/ HvSample \/ HvFaultSet
    \/ PvPoll \/ PvDisarmChk \/ PvDisarmSet \/ PvDeadline

Environment ==
    \/ EstopChanges \/ DoorChanges \/ HeartbeatChanges \/ DeadlinePasses

Next == Command \/ Monitor \/ Environment

(***************************************************************************)
(* Properties of the controller                                            *)
(***************************************************************************)
Hazard == state \in {"EXPOSE", "PREVIEW"}

\* C1: the HV relay is energized only while the controller state is Expose
\* or Preview.
C1_HvOnlyInExposeOrPreview == hv => Hazard

\* A polling tick: a pass of the heartbeat loop, or a pass of the hold loop
\* before the time is up.
PollingTick == HbPoll \/ (ExposeHold /\ arg > 0)

\* C2: a polling tick that starts in a hazardous state with an interlock
\* input not ok and HV energized ends with HV de-energized.
C2_CutWithinOneTick ==
    [][PollingTick /\ Hazard /\ hv /\ ~all_ok => ~hv']_vars

\* C3: the state leaves Fault only by the write of a reset_fault() that
\* found all interlocks ok.
C3_FaultSticky ==
    [][state = "FAULT" /\ state' # "FAULT" => ResetSet]_vars

\* C4: reset_fault() called in Fault goes on to Idle and true exactly if
\* all_ok() holds at the call; otherwise it returns false and leaves the
\* state Fault; no step of it writes the HV relay or a trigger line.
C4_ResetFault ==
    [][ /\ ResetFault /\ state = "FAULT" /\ all_ok => pc' = "r_set"
        /\ ResetFault /\ state = "FAULT" /\ ~all_ok =>
               ret' = "false" /\ pc' = "idle" /\ state' = "FAULT" /\ hv' = hv
        /\ pc' = "r_set" /\ pc # "r_set" => state = "FAULT" /\ all_ok
        /\ ResetSet => state' = "IDLE" /\ ret' = "true" /\ pc' = "idle"
        /\ cmd' = "reset_fault" /\ pc' # pc => UNCHANGED outputs
      ]_vars

\* A reset_fault() has returned true and the state is Idle.
C4_Witness == cmd = "reset_fault" /\ pc = "idle" /\ ret = "true" /\ state = "IDLE"

\* expose() returns true.
ExposeReturnsTrue == cmd = "expose" /\ pc # "idle" /\ pc' = "idle" /\ ret' = "true"

\* C5: in an expose() HV is energized through the pre-roll, the trigger
\* window and the post-hold, the trigger is never asserted while HV is
\* de-energized, and an expose() that returns true has HV and the trigger
\* off and the state Idle.
C5_ExposeOrder ==
    /\ [](cam_trigger => hv)
    /\ [](pc = "e_post" => hv /\ ~cam_trigger)
    /\ [][ExposeReturnsTrue => state' = "IDLE" /\ ~hv' /\ ~cam_trigger']_vars

\* An expose() past its first guards returns.
ExposeReturns == cmd = "expose" /\ pc # "idle" /\ pc' = "idle"

\* C37: an expose() that returns true leaves the state Idle and was not in
\* Fault when it returned, and an expose() that returns while the state is
\* Fault returns false and leaves the state Fault.
C37_TrueOnlyWithoutFault ==
    [][ /\ ExposeReturnsTrue => state' = "IDLE" /\ state # "FAULT"
        /\ ExposeReturns /\ state = "FAULT" => ret' = "false" /\ state' = "FAULT"
      ]_vars

\* C6: a pass of the hold loop that finds an interlock not ok de-energizes
\* HV and clears the trigger, and expose() then sets Fault and returns
\* false; reset_fault() in Fault fails while the E-stop is asserted and goes
\* through once the interlocks read ok.
C6_InterlockDuringExposure ==
    [][ /\ ExposeHold /\ arg > 0 /\ ~all_ok =>
               ~hv' /\ ~cam_trigger' /\ pc' = "e_cut"
        /\ CmdFaultSet /\ pc = "e_cut" =>
               state' = "FAULT" /\ ret' = "false" /\ pc' = "idle" /\ ~hv' /\ ~cam_trigger'
        /\ ResetFault /\ estop = 0 => ret' = "false" /\ state' = state
        /\ ResetFault /\ state = "FAULT" /\ estop = 1 /\ door = 1 /\ hb_in = 1 =>
               pc' = "r_set"
        /\ ResetSet => state' = "IDLE" /\ ret' = "true"
      ]_vars

\* The hold loop of an expose() has just cut HV and the trigger on the
\* E-stop; the Fault write and the return follow.
C6_Witness ==
    /\ pc = "e_cut" /\ state = "EXPOSE" /\ ~hv /\ ~cam_trigger
    /\ estop = 0 /\ door = 1 /\ hb_in = 1

\* disarm() returns.
DisarmReturns == cmd = "disarm" /\ pc # "idle" /\ pc' = "idle"

\* C7: disarm() writes HV off and both trigger lines LOW, keeps Fault and
\* turns any other state into Idle, returns with the outputs off and the
\* state Idle or Fault, and run twice gives what one run gives.
C7_Disarm ==
    /\ [](LET once == disarm(view)
          IN  /\ disarm(once) = once
              /\ ~once.hv /\ ~once.cam_trigger /\ ~once.cam_preview
              /\ once.state = (IF state = "FAULT" THEN "FAULT" ELSE "IDLE"))
    /\ [][ /\ Disarm => ~hv' /\ ~cam_trigger' /\ ~cam_preview' /\ state' = state
           /\ DisarmChk /\ state = "FAULT" => state' = "FAULT" /\ pc' = "idle"
           /\ DisarmChk /\ state # "FAULT" => pc' = "d_set"
           /\ DisarmSet => state' = "IDLE"
           /\ DisarmReturns =>
                  /\ state' \in {"IDLE", "FAULT"}
                  /\ ~hv' /\ ~cam_trigger' /\ ~cam_preview'
         ]_vars

\* A disarm() called in Preview has written the outputs off and is about to
\* set Idle.
C7_Witness == pc = "d_set" /\ state = "PREVIEW" /\ ~hv /\ ~cam_trigger /\ ~cam_preview

\* C16: arm() called in a state other than Idle, or with an interlock not
\* ok, returns failure and leaves the state; the write of Armed is made
\* from Idle only.
C16_ArmOnlyFromIdle ==
    [][ /\ Arm /\ (state # "IDLE" \/ ~all_ok) =>
               ret' = "false" /\ pc' = "idle" /\ state' = state
        /\ ArmSet => state = "IDLE"
      ]_vars

\* A command is called where one of its guards rejects it.
Rejected ==
    \/ (Expose \/ StartPreview) /\ (state \in {"EXPOSE", "PREVIEW", "FAULT"} \/ ~all_ok)
    \/ (Arm \/ ExposeArm \/ PreviewArm) /\ (state = "FAULT" \/ ~all_ok)
    \/ ResetFault /\ state # "FAULT"
    \/ StopPreview /\ state # "PREVIEW"

\* C17 as claimed: a rejected command returns failure in that step and
\* changes neither the state nor the HV relay nor a trigger line.
C17_RejectedReturnsFailure ==
    [][Rejected => pc' = "idle" /\ ret' = "false" /\ UNCHANGED <<state, outputs>>]_vars

\* C17 amended: a rejected command returns in that step, with False, or
\* with None from stop_preview, which has no result, and changes neither
\* the state nor the HV relay nor a trigger line nor the preview deadline.
C17_RejectedChangesNothing ==
    [][Rejected =>
          /\ pc' = "idle"
          /\ ret' = (IF cmd' = "stop_preview" THEN "none" ELSE "false")
          /\ UNCHANGED <<state, outputs, preview_deadline>>
      ]_vars

\* A start_preview() called in Preview has been rejected: Preview goes on
\* with HV energized and the preview line HIGH.
C17_Witness ==
    /\ cmd = "start_preview" /\ pc = "idle" /\ ret = "false"
    /\ state = "PREVIEW" /\ hv /\ cam_preview

\* stop_preview() returns.
StopPreviewReturns == cmd = "stop_preview" /\ pc # "idle" /\ pc' = "idle"

\* C31: start_preview() called in Idle or Armed with the interlocks ok is
\* accepted; it energizes HV, after that asserts the preview line, after
\* that sets Preview, and returns true.  stop_preview() called in Preview
\* writes the preview line LOW and HV off, sets Idle unless it finds
\* Fault, and returns with both off; called in another state it returns
\* having written nothing.
C31_PreviewStartStop ==
    [][ /\ StartPreview /\ state \in {"IDLE", "ARMED"} /\ all_ok =>
               pc' = (IF state = "IDLE" THEN "p_arm" ELSE "p_hvon")
        /\ PreviewArm /\ state # "FAULT" /\ all_ok => pc' = "p_armset"
        /\ PreviewArmSet => pc' = "p_hvon"
        /\ PreviewHvOn /\ all_ok => hv' /\ pc' = "p_prev"
        /\ pc' = "p_prev" /\ pc # "p_prev" => PreviewHvOn /\ hv'
        /\ PreviewEnable => cam_preview' /\ pc' = "p_set" /\ state' = state
        /\ pc' = "p_set" /\ pc # "p_set" => PreviewEnable
        /\ PreviewSet => state' = "PREVIEW" /\ pc' = "p_dl"
        /\ pc' = "p_dl" /\ pc # "p_dl" => PreviewSet
        /\ PreviewDeadline => ret' = "true" /\ pc' = "idle"
        /\ state # "PREVIEW" /\ state' = "PREVIEW" => PreviewSet
        /\ StopPreview /\ state = "PREVIEW" =>
               ~cam_preview' /\ ~hv' /\ pc' = "s_dchk" /\ state' = state
        /\ StopDisarmChk /\ state # "FAULT" => pc' = "s_dset"
        /\ StopDisarmSet => state' = "IDLE"
        /\ StopPreviewReturns => ~cam_preview' /\ ~hv' /\ state' \in {"IDLE", "FAULT"}
        /\ StopPreview /\ state # "PREVIEW" =>
               pc' = "idle" /\ UNCHANGED <<state, outputs, preview_deadline>>
      ]_vars

\* A stop_preview() called in the Preview a start_preview() had set has
\* written the preview line LOW and HV off and is about to set Idle.
C31_Witness ==
    /\ cmd = "stop_preview" /\ pc = "s_dset" /\ state = "PREVIEW"
    /\ ~hv /\ ~cam_preview

\* C22: a deadline set by the start_preview() of the running preview is
\* not cleared while the state stays Preview.
C22_DeadlineKept ==
    [][ /\ state = "PREVIEW" /\ pc # "p_dl"
        /\ preview_deadline # "None" /\ preview_deadline' = "None"
        => state' # "PREVIEW" ]_vars

\* C23: in Fault the HV relay is de-energized and both trigger lines are
\* LOW.
C23_FaultOutputsOff ==
    state = "FAULT" => ~hv /\ ~cam_trigger /\ ~cam_preview

\* C27: a pass of the heartbeat loop that reads the heartbeat input not ok
\* in a state other than Fault writes the outputs off and sets Fault before
\* it sleeps; a pass that finds Fault raises nothing.
C27_HeartbeatLoss ==
    [][ /\ HbPoll /\ state # "FAULT" /\ ~heartbeat_ok =>
               hbpc' = "set" /\ ~hv' /\ ~cam_trigger' /\ ~cam_preview'
        /\ hbpc = "set" /\ hbpc' # "set" => HbFaultSet
        /\ HbFaultSet => state' = "FAULT" /\ hbpc' = "sleep"
        /\ HbPoll /\ state = "FAULT" => hbpc' = "sleep" /\ UNCHANGED <<state, outputs>>
      ]_vars

\* The heartbeat loop has read the input LOW in Armed and is about to set
\* Fault.
C27_Witness == hbpc = "set" /\ state = "ARMED" /\ hb_in = LOW

(***************************************************************************)
(* The relay pin                                  relay.py, hv_kill_daemon *)
(***************************************************************************)
\* relay.py 10: the relay module is active LOW.
ACTIVE_LOW == TRUE
\* relay.py 15-20.
RELAY_ON == IF ACTIVE_LOW THEN LOW ELSE HIGH
RELAY_OFF == IF ACTIVE_LOW THEN HIGH ELSE LOW

\* hv_kill_daemon.py 42-43: the timeout of 1.0 s in poll intervals of 0.25 s.
HEARTBEAT_TIMEOUT == 4

(***************************************************************************)
(* The watchdog process                           hv_kill_daemon.py        *)
(***************************************************************************)
\* force_hv_off (55-57): the level it writes.
force_hv_off == LOW

\* gui_is_alive taking a missing file for a GUI that has not started yet.
gui_is_alive_MissingIsAlive ==
    IF hbfile = "missing" THEN TRUE
    ELSE IF hbfile = "empty" THEN FALSE
    ELSE hbage < HEARTBEAT_TIMEOUT

\* gui_is_alive (70-82): no file, or a file float() cannot parse, is not
\* alive; otherwise the age of the timestamp decides.
gui_is_alive ==
    IF hbfile = "missing" THEN FALSE
    ELSE IF hbfile = "empty" THEN FALSE
    ELSE hbage < HEARTBEAT_TIMEOUT

\* safe_shutdown_requested (63-64).
safe_shutdown_requested == flag

\* A Python bool held in a local that may be unset.
Py(b) == IF b THEN "True" ELSE "False"

guiSide == <<hbfile, hbage, flag, gui, old_flag_removed>>
wdLocals == <<alive, shutdown_mode, hv_state>>

\* Lines 53, 88-91: the pin is set up LOW, forced off, and HV is allowed.
WdBoot ==
    /\ wdpc = "off"
    /\ pin' = force_hv_off
    /\ hv_allowed' = TRUE
    /\ wdpc' = "alive"
    /\ UNCHANGED <<wdLocals, guiSide, otherThanWd>>

\* Line 99.
WdReadAlive ==
    /\ wdpc = "alive"
    /\ alive' = Py(gui_is_alive)
    /\ wdpc' = "flag"
    /\ UNCHANGED <<pin, hv_allowed, shutdown_mode, hv_state, guiSide, otherThanWd>>

\* Line 100.
WdReadFlag ==
    /\ wdpc = "flag"
    /\ shutdown_mode' = Py(safe_shutdown_requested)
    /\ wdpc' = "pin"
    /\ UNCHANGED <<pin, hv_allowed, alive, hv_state, guiSide, otherThanWd>>

\* Line 101.
WdReadPin ==
    /\ wdpc = "pin"
    /\ hv_state' = pin
    /\ wdpc' = "act"
    /\ UNCHANGED <<pin, hv_allowed, alive, shutdown_mode, guiSide, otherThanWd>>

\* Cases 1 and 2 without their tests of shutdown_mode.
next_hv_allowed_IgnoresFlag == alive = "True"

\* Lines 106-127: hv_allowed after cases 1 and 2.
next_hv_allowed ==
    IF alive # "True"
      THEN IF shutdown_mode = "True" THEN hv_allowed ELSE FALSE
      ELSE IF shutdown_mode # "True" THEN TRUE ELSE hv_allowed

\* The iteration without case 3 (lines 132-134).
forces_CrashOnly == alive # "True" /\ shutdown_mode # "True" /\ hv_state = HIGH

\* Lines 112-114 and 132-134: whether this iteration forces the pin.
forces ==
    \/ alive # "True" /\ shutdown_mode # "True" /\ hv_state = HIGH
    \/ hv_state = HIGH /\ ~next_hv_allowed

\* Lines 106-136: the rest of one poll iteration.
WdAct ==
    /\ wdpc = "act"
    /\ hv_allowed' = next_hv_allowed
    /\ pin' = IF forces THEN force_hv_off ELSE pin
    /\ wdpc' = "alive"
    /\ UNCHANGED <<wdLocals, guiSide, otherThanWd>>

\* Lines 138-141: GPIO.input raises at line 101 and the handler of the loop
\* forces the pin and sleeps; the next iteration follows.
WdRuntimeError ==
    /\ wdpc = "pin"
    /\ pin' = force_hv_off
    /\ wdpc' = "alive"
    /\ UNCHANGED <<hv_allowed, wdLocals, guiSide, otherThanWd>>

(***************************************************************************)
(* The GUI process                                Interface.py, relay.py   *)
(***************************************************************************)
\* A start that leaves an old shutdown flag in place.
GuiStart_KeepsFlag ==
    /\ gui \in {"off", "crashed"}
    /\ old_flag_removed' = FALSE
    /\ gui' = "run"
    /\ UNCHANGED <<wdpc, pin, hv_allowed, wdLocals, hbfile, hbage, flag, otherThanWd>>

\* The GUI process starts.  Its import of relay (relay.py 12-13) sets the
\* pin up as an output without an initial level, which leaves the level
\* of the pin as it was; MainWindow.__init__ (194-199, 352-356) removes
\* the old shutdown flag and starts the heartbeat timer.
GuiStart ==
    /\ gui \in {"off", "crashed"}
    /\ old_flag_removed' = flag
    /\ flag' = FALSE
    /\ gui' = "run"
    /\ UNCHANGED <<wdpc, pin, hv_allowed, wdLocals, hbfile, hbage, otherThanWd>>

\* send_heartbeat (369-374): open(..., "w") truncates the file.
GuiHeartbeatOpen ==
    /\ gui = "run"
    /\ hbfile' = "empty"
    /\ gui' = "wr"
    /\ UNCHANGED <<wdpc, pin, hv_allowed, wdLocals, hbage, flag, old_flag_removed,
                   otherThanWd>>

\* send_heartbeat: the timestamp is written.
GuiHeartbeatWrite ==
    /\ gui = "wr"
    /\ hbfile' = "ts"
    /\ hbage' = 0
    /\ gui' = "run"
    /\ UNCHANGED <<wdpc, pin, hv_allowed, wdLocals, flag, old_flag_removed,
                   otherThanWd>>

\* relay.hv_on (23-26), called at Interface.py 707.
GuiHvOn ==
    /\ gui = "run"
    /\ pin' = RELAY_ON
    /\ UNCHANGED <<wdpc, hv_allowed, wdLocals, guiSide, otherThanWd>>

\* relay.hv_off (29-32), called at Interface.py 714.
GuiHvOff ==
    /\ gui = "run"
    /\ pin' = RELAY_OFF
    /\ UNCHANGED <<wdpc, hv_allowed, wdLocals, guiSide, otherThanWd>>

\* closeEvent (936-945): the shutdown flag is written.
GuiCloseFlag ==
    /\ gui = "run"
    /\ flag' = TRUE
    /\ gui' = "closing"
    /\ UNCHANGED <<wdpc, pin, hv_allowed, wdLocals, hbfile, hbage, old_flag_removed,
                   otherThanWd>>

\* closeEvent (947-951): hv_off(), and the process ends.
GuiCloseHvOff ==
    /\ gui = "closing"
    /\ pin' = RELAY_OFF
    /\ gui' = "off"
    /\ UNCHANGED <<wdpc, hv_allowed, wdLocals, hbfile, hbage, flag, old_flag_removed,
                   otherThanWd>>

\* The GUI process dies.
GuiCrash ==
    /\ gui \in {"run", "wr", "closing"}
    /\ gui' = "crashed"
    /\ UNCHANGED <<wdpc, pin, hv_allowed, wdLocals, hbfile, hbage, flag, old_flag_removed,
                   otherThanWd>>

\* A poll interval of wall-clock time passes.
Tick ==
    /\ hbage < MaxAge
    /\ hbage' = hbage + 1
    /\ UNCHANGED <<wdpc, pin, hv_allowed, wdLocals, hbfile, flag, gui, old_flag_removed,
                   otherThanWd>>

Watchdog == WdBoot \/ WdReadAlive \/ WdReadFlag \/ WdReadPin \/ WdAct

Gui ==
    \/ GuiStart \/ GuiHeartbeatOpen \/ GuiHeartbeatWrite \/ GuiHvOn \/ GuiHvOff
    \/ GuiCloseFlag \/ GuiCloseHvOff \/ GuiCrash

NextWd == Watchdog \/ Gui \/ Tick

(***************************************************************************)
(* Properties of the watchdog                                              *)
(***************************************************************************)
\* The heartbeat file is missing or its timestamp is older than the timeout.
Stale == hbfile = "missing" \/ (hbfile = "ts" /\ hbage >= HEARTBEAT_TIMEOUT)

\* C8: a poll iteration that reads a missing or stale heartbeat judges the
\* GUI not alive, and one that judged so with no shutdown flag, the pin not
\* written since it was read, ends with the pin LOW.
C8_StaleHeartbeatForcesLow ==
    [][ /\ WdReadAlive /\ Stale => alive' = "False"
        /\ WdAct /\ alive = "False" /\ shutdown_mode = "False" /\ hv_state = pin => pin' = LOW
      ]_vars

\* After a crash of the GUI the watchdog has found the pin HIGH, the
\* heartbeat stale and no flag, and has forced the pin LOW.
C8_Witness ==
    /\ wdpc = "alive" /\ gui = "crashed" /\ hbfile = "ts" /\ hbage >= HEARTBEAT_TIMEOUT
    /\ alive = "False" /\ shutdown_mode = "False" /\ hv_state = HIGH /\ pin = LOW

\* C9: the watchdog's start writes the relay's OFF level to the pin, and it
\* has read neither the heartbeat file nor the flag before that.
C9_OffAtStartup ==
    /\ [](wdpc = "off" => alive = "unset" /\ shutdown_mode = "unset")
    /\ [][WdBoot => pin' = RELAY_OFF]_vars

\* C10: hv_allowed goes from false to true only in an iteration that read a
\* fresh heartbeat, and an iteration that ends with hv_allowed false and
\* had read the pin HIGH ends with the pin forced LOW.
C10_ReenableOnlyOnHeartbeat ==
    [][ /\ WdReadAlive /\ alive' = "True" => hbfile = "ts" /\ hbage < HEARTBEAT_TIMEOUT
        /\ ~hv_allowed /\ hv_allowed' => WdAct /\ alive = "True"
        /\ WdAct /\ ~hv_allowed' /\ hv_state = HIGH => pin' = LOW
      ]_vars

\* The engaged watchdog, under a shutdown flag, has found the pin HIGH and
\* forced it LOW.
C10_Witness ==
    /\ wdpc = "alive" /\ ~hv_allowed /\ alive = "False" /\ shutdown_mode = "True"
    /\ hv_state = HIGH /\ pin = LOW

\* C28 as worded: an iteration that read the shutdown flag present leaves
\* the pin and hv_allowed as they are.
C28_FlagSuspendsWatchdog ==
    [][WdAct /\ shutdown_mode = "True" => pin' = pin /\ hv_allowed' = hv_allowed]_vars

\* C28 amended: an iteration that read the shutdown flag present leaves
\* hv_allowed as it is whatever the heartbeat, and writes the pin only if
\* it read the pin HIGH with hv_allowed already false, again whatever the
\* heartbeat; an iteration that read no flag sets hv_allowed to what it
\* judged of the heartbeat.
C28_FlagSuspendsHeartbeatRule ==
    [][ /\ WdAct /\ shutdown_mode = "True" =>
               /\ hv_allowed' = hv_allowed
               /\ pin' = IF hv_state = HIGH /\ ~hv_allowed THEN LOW ELSE pin
        /\ WdAct /\ shutdown_mode = "False" => hv_allowed' = (alive = "True")
      ]_vars

\* Under the flag the watchdog has judged the heartbeat silent, found the
\* pin HIGH, and left both the pin and hv_allowed alone.
C28_Witness ==
    /\ wdpc = "alive" /\ flag /\ shutdown_mode = "True" /\ alive = "False"
    /\ hv_state = HIGH /\ pin = HIGH /\ hv_allowed

C40_ErrorsLeaveHvOff ==
    /\ [][WdReadAlive /\ hbfile = "empty" => alive' = "False"]_vars
    /\ [][WdRuntimeError => pin' = RELAY_OFF /\ wdpc' = "alive"]_vars

\* C36: the level the watchdog writes to force HV off is the level hv_off()
\* writes and not the level hv_on() writes, so that after force_hv_off the
\* relay is in the state hv_off() produces; and the level the watchdog
\* reads as "HV ON" before it forces is the level hv_on() writes.
C36_SameRelayLevels ==
    /\ [][WdBoot \/ (WdAct /\ forces) => pin' = RELAY_OFF /\ pin' # RELAY_ON]_vars
    /\ [][WdAct /\ forces => hv_state = RELAY_ON]_vars

(***************************************************************************)
(* The actuator subsystem            stepper_Motor.py, motor_test.py,      *)
(*                                   Interface.py                          *)
(* One program at a time imports stepper_Motor and calls into it from one  *)
(* thread.  The Axis 1 loops poll a limit switch between step commands, so *)
(* each pass is a step; the Axis 3 functions run to their end in one step. *)
(***************************************************************************)
\* Largest number of step commands on the serial link that is told apart.
MaxCmds == 2
\* Most motor3_rotate_45() calls between two homes.
MaxRotations == 2

\* stepper_Motor.py 132.
M3_STEPS_45 == 512

m3Vars == <<m3_index, m3_total_steps, m3_back, rot_n, index_at_home, homed>>
guiFlags == <<has_closed_once, armed, hv_fault_active>>
switches == <<sw1, sw2>>

\* The module globals of Axis 3 and the steps its last home issued.
m3 == [m3_index |-> m3_index, m3_total_steps |-> m3_total_steps, m3_back |-> m3_back]

\* motor3_step_forward (141-148) and motor3_step_backward (154-161): the
\* index in the 8-entry half-step sequence.
motor3_step_forward(i) == (i + 1) % 8
motor3_step_backward(i) == (i - 1) % 8

\* `for _ in range(k): motor3_step_forward()` (172-173): the k passes one
\* after the other, taken as a first part of the run (to mid) and the rest.
\* The set brackets only make the first part be evaluated before the rest,
\* which keeps the evaluation shallow.
RECURSIVE ForwardRun(_, _)
ForwardRun(i, k) ==
    IF k = 0 THEN i
    ELSE IF k = 1 THEN motor3_step_forward(i)
    ELSE LET h == k \div 2
         IN  CHOOSE j \in {ForwardRun(mid, k - h) : mid \in {ForwardRun(i, h)}} : TRUE

\* `for _ in range(k): motor3_step_backward()` (194-195), likewise; r holds
\* the index and the number of steps issued so far.
RECURSIVE BackwardRun(_, _)
BackwardRun(r, k) ==
    IF k = 0 THEN r
    ELSE IF k = 1
      THEN [index |-> motor3_step_backward(r.index), steps |-> r.steps + 1]
    ELSE LET h == k \div 2
         IN  CHOOSE j \in {BackwardRun(mid, k - h) : mid \in {BackwardRun(r, h)}} : TRUE

\* motor3_rotate_45 that overwrites the step count instead of adding to it.
motor3_rotate_45_NoAccumulate(m) ==
    [m EXCEPT !.m3_index = ForwardRun(@, M3_STEPS_45),
              !.m3_total_steps = M3_STEPS_45]

\* motor3_rotate_45 (167-181).
motor3_rotate_45(m) ==
    [m EXCEPT !.m3_index = ForwardRun(@, M3_STEPS_45),
              !.m3_total_steps = @ + M3_STEPS_45]

\* motor3_home (188-203).
motor3_home(m) ==
    LET run == BackwardRun([index |-> m.m3_index, steps |-> 0], m.m3_total_steps)
    IN  [m EXCEPT !.m3_index = run.index, !.m3_back = run.steps,
                  !.m3_total_steps = 0]

\* A call of motor3_rotate_45().
Motor3Rotate45 ==
    /\ rot_n < MaxRotations
    /\ LET m == motor3_rotate_45(m3)
       IN  /\ m3_index' = m.m3_index
           /\ m3_total_steps' = m.m3_total_steps
           /\ m3_back' = m.m3_back
    /\ rot_n' = rot_n + 1
    /\ homed' = FALSE
    /\ UNCHANGED index_at_home

\* A call of motor3_home().
Motor3Home ==
    /\ LET m == motor3_home(m3)
       IN  /\ m3_index' = m.m3_index
           /\ m3_total_steps' = m.m3_total_steps
           /\ m3_back' = m.m3_back
           /\ index_at_home' = m.m3_index
    /\ rot_n' = 0
    /\ homed' = TRUE

\* A call of motor1_forward_until_switch2 or motor1_backward_until_switch1
\* enters its loop.
Motor1Call(dir, caller) ==
    /\ m1pc' = dir
    /\ m1caller' = caller

\* motor1_forward_until_switch2 (29-37), one pass of the loop; when it ends,
\* what the caller does next: on_close sets has_closed_once (609), closeEvent
\* ends the program.
Motor1ForwardStep ==
    /\ m1pc = "fwd"
    /\ IF sw2 = 1
         THEN /\ ser < MaxCmds
              /\ ser' = ser + 1
              /\ UNCHANGED <<m1pc, m1caller, app, has_closed_once>>
         ELSE /\ m1pc' = "idle"
              /\ m1caller' = "none"
              /\ has_closed_once' = IF m1caller = "on_close" THEN TRUE ELSE has_closed_once
              /\ app' = IF m1caller = "closeEvent" THEN "off" ELSE app
              /\ UNCHANGED ser
    /\ UNCHANGED <<switches, m3Vars, motor3_is_home, armed, hv_fault_active, otherThanMot>>

\* motor1_backward_until_switch1 (40-48), one pass of the loop.
Motor1BackwardStep ==
    /\ m1pc = "bwd"
    /\ IF sw1 = 1
         THEN /\ ser < MaxCmds
              /\ ser' = ser + 1
              /\ UNCHANGED <<m1pc, m1caller>>
         ELSE /\ m1pc' = "idle"
              /\ m1caller' = "none"
              /\ UNCHANGED ser
    /\ UNCHANGED <<app, switches, m3Vars, motor3_is_home, guiFlags, otherThanMot>>

(***************************************************************************)
(* A script that calls the stepper module functions                        *)
(***************************************************************************)
\* import stepper_Motor (15-23, 124-135).
LibStart ==
    /\ app = "none"
    /\ app' = "lib"
    /\ UNCHANGED <<switches, ser, m1pc, m1caller, m3Vars, motor3_is_home, guiFlags,
                   otherThanMot>>

LibForward ==
    /\ app = "lib" /\ m1pc = "idle"
    /\ Motor1Call("fwd", "lib")
    /\ UNCHANGED <<app, switches, ser, m3Vars, motor3_is_home, guiFlags, otherThanMot>>

LibBackward ==
    /\ app = "lib" /\ m1pc = "idle"
    /\ Motor1Call("bwd", "lib")
    /\ UNCHANGED <<app, switches, ser, m3Vars, motor3_is_home, guiFlags, otherThanMot>>

LibRotate ==
    /\ app = "lib" /\ m1pc = "idle"
    /\ Motor3Rotate45
    /\ UNCHANGED <<app, switches, ser, m1pc, m1caller, motor3_is_home, guiFlags,
                   otherThanMot>>

LibHome ==
    /\ app = "lib" /\ m1pc = "idle"
    /\ Motor3Home
    /\ UNCHANGED <<app, switches, ser, m1pc, m1caller, motor3_is_home, guiFlags,
                   otherThanMot>>

(***************************************************************************)
(* The motor test menu                          motor_test.py 58-134       *)
(***************************************************************************)
\* Lines 61-68: Axis 3 is homed before the first command is read.
MenuMain ==
    /\ app = "none"
    /\ app' = "menu"
    /\ Motor3Home
    /\ motor3_is_home' = TRUE
    /\ UNCHANGED <<switches, ser, m1pc, m1caller, guiFlags, otherThanMot>>

\* Command h (81-85).
MenuHome ==
    /\ app = "menu" /\ m1pc = "idle"
    /\ Motor3Home
    /\ motor3_is_home' = TRUE
    /\ UNCHANGED <<app, switches, ser, m1pc, m1caller, guiFlags, otherThanMot>>

\* Command o (90-97): refused unless motor3_is_home.
MenuOpen ==
    /\ app = "menu" /\ m1pc = "idle"
    /\ IF ~motor3_is_home
         THEN UNCHANGED <<m1pc, m1caller>>
         ELSE Motor1Call("bwd", "menu")
    /\ UNCHANGED <<app, switches, ser, m3Vars, motor3_is_home, guiFlags, otherThanMot>>

\* Command c (102-109): refused unless motor3_is_home.
MenuClose ==
    /\ app = "menu" /\ m1pc = "idle"
    /\ IF ~motor3_is_home
         THEN UNCHANGED <<m1pc, m1caller>>
         ELSE Motor1Call("fwd", "menu")
    /\ UNCHANGED <<app, switches, ser, m3Vars, motor3_is_home, guiFlags, otherThanMot>>

\* Command r leaving the flag as it is.
MenuRotate_KeepsFlag ==
    /\ app = "menu" /\ m1pc = "idle"
    /\ Motor3Rotate45
    /\ UNCHANGED <<app, switches, ser, m1pc, m1caller, motor3_is_home, guiFlags,
                   otherThanMot>>

\* Command r (125-129).
MenuRotate ==
    /\ app = "menu" /\ m1pc = "idle"
    /\ Motor3Rotate45
    /\ motor3_is_home' = FALSE
    /\ UNCHANGED <<app, switches, ser, m1pc, m1caller, guiFlags, otherThanMot>>

(***************************************************************************)
(* The GUI handlers                             Interface.py               *)
(***************************************************************************)
\* MainWindow.__init__ (209-211, 307-331): the flags from the tray switches.
GuiInit ==
    /\ app = "none"
    /\ app' = "gui"
    /\ has_closed_once' = (sw1 # 0 /\ sw2 = 0)
    /\ armed' = (sw1 # 0 /\ sw2 = 0)
    /\ hv_fault_active' = FALSE
    /\ UNCHANGED <<switches, ser, m1pc, m1caller, m3Vars, motor3_is_home, otherThanMot>>

\* check_alignment (537-572), outside an X-ray capture.
CheckAlignment ==
    /\ app = "gui" /\ m1pc = "idle"
    /\ ~hv_fault_active
    /\ armed' = (has_closed_once /\ sw2 = 0)
    /\ UNCHANGED <<app, switches, ser, m1pc, m1caller, m3Vars, motor3_is_home,
                   has_closed_once, hv_fault_active, otherThanMot>>

\* on_open (577-592): Axis 3 is homed, then the tray opened.
OnOpen ==
    /\ app = "gui" /\ m1pc = "idle"
    /\ ~hv_fault_active
    /\ has_closed_once' = FALSE
    /\ Motor3Home
    /\ Motor1Call("bwd", "on_open")
    /\ UNCHANGED <<app, switches, ser, motor3_is_home, armed, hv_fault_active,
                   otherThanMot>>

\* on_close (597-609).
OnClose ==
    /\ app = "gui" /\ m1pc = "idle"
    /\ ~hv_fault_active
    /\ Motor1Call("fwd", "on_close")
    /\ UNCHANGED <<app, switches, ser, m3Vars, motor3_is_home, guiFlags, otherThanMot>>

\* on_rotate45 (614-625).
OnRotate45 ==
    /\ app = "gui" /\ m1pc = "idle"
    /\ has_closed_once /\ armed
    /\ ~hv_fault_active
    /\ Motor3Rotate45
    /\ UNCHANGED <<app, switches, ser, m1pc, m1caller, motor3_is_home, guiFlags,
                   otherThanMot>>

\* on_home3 (630-634).
OnHome3 ==
    /\ app = "gui" /\ m1pc = "idle"
    /\ ~hv_fault_active
    /\ Motor3Home
    /\ UNCHANGED <<app, switches, ser, m1pc, m1caller, motor3_is_home, guiFlags,
                   otherThanMot>>

\* closeEvent (953-963): Axis 3 is homed, then the tray closed.
CloseEvent ==
    /\ app = "gui" /\ m1pc = "idle"
    /\ Motor3Home
    /\ Motor1Call("fwd", "closeEvent")
    /\ UNCHANGED <<app, switches, ser, motor3_is_home, guiFlags, otherThanMot>>

(***************************************************************************)
(* Environment of the actuators                                            *)
(***************************************************************************)
\* A limit switch of Axis 1 is pressed or released.
Sw1Changes ==
    /\ sw1' = 1 - sw1
    /\ UNCHANGED <<app, sw2, ser, m1pc, m1caller, m3Vars, motor3_is_home, guiFlags,
                   otherThanMot>>

Sw2Changes ==
    /\ sw2' = 1 - sw2
    /\ UNCHANGED <<app, sw1, ser, m1pc, m1caller, m3Vars, motor3_is_home, guiFlags,
                   otherThanMot>>

\* Before any program has imported stepper_Motor (83-84, 134-135).
InitMot ==
    /\ app = "none"
    /\ sw1 = 1
    /\ sw2 = 1
    /\ ser = 0
    /\ m1pc = "idle"
    /\ m1caller = "none"
    /\ m3_index = 0
    /\ m3_total_steps = 0
    /\ m3_back = 0
    /\ rot_n = 0
    /\ index_at_home = 0
    /\ homed = FALSE
    /\ motor3_is_home = FALSE
    /\ has_closed_once = FALSE
    /\ armed = FALSE
    /\ hv_fault_active = FALSE

Lib == LibStart \/ LibForward \/ LibBackward \/ LibRotate \/ LibHome

Menu == MenuMain \/ MenuHome \/ MenuOpen \/ MenuClose \/ MenuRotate

Handlers ==
    \/ GuiInit \/ CheckAlignment \/ OnOpen \/ OnClose \/ OnRotate45
    \/ OnHome3 \/ CloseEvent

NextMot ==
    \/ Lib \/ Menu \/ Handlers
    \/ Motor1ForwardStep \/ Motor1BackwardStep
    \/ Sw1Changes \/ Sw2Changes

(***************************************************************************)
(* Properties of the actuator subsystem                                    *)
(***************************************************************************)
\* C12: a step command is written to the serial link only while Axis 3 is
\* homed.
C12_Axis1NeedsAxis3Home ==
    [][ser' # ser => homed]_vars

\* A step in which motor3_home() is called.
HomeCalled == LibHome \/ MenuMain \/ MenuHome \/ OnHome3 \/ OnOpen \/ CloseEvent

\* C13: a motor3_home() after n calls of motor3_rotate_45() since the last
\* home issues n * 512 backward steps, leaves the step count 0 and the phase
\* index where it was at the last home; called again at once it issues no
\* step.
C13_HomeReversesRotations ==
    [][HomeCalled =>
          /\ m3_back' = rot_n * M3_STEPS_45
          /\ m3_total_steps' = 0
          /\ m3_index' = index_at_home
          /\ (homed => m3_back' = 0)
      ]_vars

\* Axis 3 has been homed after two rotations.
C13_Witness ==
    /\ homed /\ rot_n = 0 /\ m3_total_steps = 0
    /\ m3_back = 2 * M3_STEPS_45

(***************************************************************************)
(* Properties of the relay output                                          *)
(***************************************************************************)
\* C20: the relay pin is at its OFF level once the GUI process has set the
\* relay driver up and once it has shut down through closeEvent, and the
\* only step that takes the pin to the ON level is hv_on.
C20_RelayDefaultsOff ==
    /\ [][GuiStart => pin' = RELAY_OFF]_vars
    /\ [][GuiCloseHvOff => pin' = RELAY_OFF]_vars
    /\ [][pin # RELAY_ON /\ pin' = RELAY_ON => GuiHvOn]_vars

\* C26: the menu's homed flag is false before the menu has started, is
\* set only by a completed motor3_home(), is cleared by every rotation,
\* and is therefore set only while Axis 3 has been homed and not rotated
\* since.
C26_HomedFlag ==
    /\ [](app = "none" => ~motor3_is_home)
    /\ [](motor3_is_home => homed /\ m3_total_steps = 0)
    /\ [][~motor3_is_home /\ motor3_is_home' => MenuMain \/ MenuHome]_vars
    /\ [][MenuRotate => ~motor3_is_home']_vars

\* The menu has homed Axis 3 at its start and then rotated it once.
C26_Witness ==
    app = "menu" /\ ~motor3_is_home /\ ~homed /\ rot_n = 1 /\ index_at_home = 0

(***************************************************************************)
(* Properties of the heartbeat file                                        *)
(***************************************************************************)
\* C11: a watchdog read that overlaps a heartbeat write, made while the
\* timestamp written before is still fresh and was judged alive at the read
\* before, finds a complete timestamp in the file and judges the GUI alive.
C11_HeartbeatAtomic ==
    [][ WdReadAlive /\ gui = "wr" /\ alive = "True" /\ hbage < HEARTBEAT_TIMEOUT =>
            hbfile = "ts" /\ alive' = "True"
      ]_vars

(***************************************************************************)
(* The E-stop module: src/xavier/gpio_estop.py                             *)
(*                                                                         *)
(* The module takes no lock.  A monitor thread runs _monitor_loop; one     *)
(* caller thread (main.py: start_monitor at start-up, clear_fault from     *)
(* the emergency hold, stop_monitor at exit) runs against it.  The two     *)
(* samples of _read_high_stable are 20 ms apart and are separate steps.    *)
(***************************************************************************)
\* Monitor threads that can exist at once: stop_monitor gives up its join
\* after 0.5 s, and start_monitor then starts another thread.
MaxThreads == 2

Threads == 1..MaxThreads

\* A thread that has not been started or has returned.
NoThread == [pc |-> "none", v1 |-> 1, safe |-> TRUE]

\* _read_high_stable, lines 37-40.
_read_high_stable(v1, v2) == IF v1 = 1 /\ v2 = 1 THEN 1 ELSE 0

\* Line 107: while _RUN.
MonWhile(t) ==
    /\ mon[t].pc = "while"
    /\ mon' = [mon EXCEPT ![t] = IF RUN THEN [@ EXCEPT !.pc = "v1"] ELSE NoThread]
    /\ UNCHANGED <<es_pin, RUN, THREAD, ON_FAULT, FAULT_LATCH, callpc, cf_v1, cf_ret,
                   cb_calls, otherThanEs>>

\* Line 108, first sample (line 37).
MonSample1(t) ==
    /\ mon[t].pc = "v1"
    /\ mon' = [mon EXCEPT ![t] = [@ EXCEPT !.pc = "v2", !.v1 = es_pin]]
    /\ UNCHANGED <<es_pin, RUN, THREAD, ON_FAULT, FAULT_LATCH, callpc, cf_v1, cf_ret,
                   cb_calls, otherThanEs>>

\* Line 108, second sample (lines 39-40) and the comparison.
MonSample2(t) ==
    /\ mon[t].pc = "v2"
    /\ mon' = [mon EXCEPT ![t] = [pc |-> "test", v1 |-> 1,
                                  safe |-> _read_high_stable(mon[t].v1, es_pin) = 1]]
    /\ UNCHANGED <<es_pin, RUN, THREAD, ON_FAULT, FAULT_LATCH, callpc, cf_v1, cf_ret,
                   cb_calls, otherThanEs>>

\* Lines 110-124: not safe and not latched, latch and go to the callback;
\* safe and latched, clear the latch.  The test of _FAULT_LATCH and the
\* assignment that follows it are taken as one step.
MonTest(t) ==
    /\ mon[t].pc = "test"
    /\ IF ~mon[t].safe
       THEN IF ~FAULT_LATCH
            THEN /\ FAULT_LATCH' = TRUE
                 /\ mon' = [mon EXCEPT ![t] = [@ EXCEPT !.pc = "cb", !.safe = TRUE]]
            ELSE /\ FAULT_LATCH' = FAULT_LATCH
                 /\ mon' = [mon EXCEPT ![t] = [@ EXCEPT !.pc = "sleep", !.safe = TRUE]]
       ELSE /\ FAULT_LATCH' = FALSE
            /\ mon' = [mon EXCEPT ![t] = [@ EXCEPT !.pc = "sleep", !.safe = TRUE]]
    /\ UNCHANGED <<es_pin, RUN, THREAD, ON_FAULT, callpc, cf_v1, cf_ret, cb_calls,
                   otherThanEs>>

\* Lines 114-119: cb = _ON_FAULT; if cb: cb().
MonCallback(t) ==
    /\ mon[t].pc = "cb"
    /\ mon' = [mon EXCEPT ![t] = [@ EXCEPT !.pc = "sleep"]]
    /\ cb_calls' = IF ON_FAULT /\ cb_calls < 2 THEN cb_calls + 1 ELSE cb_calls
    /\ UNCHANGED <<es_pin, RUN, THREAD, ON_FAULT, FAULT_LATCH, callpc, cf_v1, cf_ret,
                   otherThanEs>>

\* Line 126: time.sleep(0.05).
MonSleep(t) ==
    /\ mon[t].pc = "sleep"
    /\ mon' = [mon EXCEPT ![t] = [@ EXCEPT !.pc = "while"]]
    /\ UNCHANGED <<es_pin, RUN, THREAD, ON_FAULT, FAULT_LATCH, callpc, cf_v1, cf_ret,
                   cb_calls, otherThanEs>>

\* start_monitor(on_fault), lines 140-148.
StartMonitor ==
    /\ callpc = "idle"
    /\ ON_FAULT' = TRUE
    /\ IF RUN
       THEN UNCHANGED <<RUN, THREAD, mon>>
       ELSE /\ \E t \in Threads :
                 /\ mon[t].pc = "none"
                 /\ \A u \in Threads : u < t => mon[u].pc # "none"
                 /\ THREAD' = t
                 /\ mon' = [mon EXCEPT ![t] = [@ EXCEPT !.pc = "while"]]
            /\ RUN' = TRUE
    /\ UNCHANGED <<es_pin, FAULT_LATCH, callpc, cf_v1, cf_ret, cb_calls, otherThanEs>>

\* stop_monitor, lines 156-158: _RUN = False, then the join if the thread
\* is alive, else line 161.
StopMonitor ==
    /\ callpc = "idle"
    /\ RUN' = FALSE
    /\ IF THREAD # 0 /\ mon[THREAD].pc # "none"
       THEN callpc' = "join" /\ THREAD' = THREAD
       ELSE callpc' = "idle" /\ THREAD' = 0
    /\ UNCHANGED <<es_pin, ON_FAULT, FAULT_LATCH, mon, cf_v1, cf_ret, cb_calls,
                   otherThanEs>>

\* Lines 159-161: the thread has returned, the join ends.
StopJoined ==
    /\ callpc = "join"
    /\ mon[THREAD].pc = "none"
    /\ callpc' = "idle"
    /\ THREAD' = 0
    /\ UNCHANGED <<es_pin, RUN, ON_FAULT, FAULT_LATCH, mon, cf_v1, cf_ret, cb_calls,
                   otherThanEs>>

\* Lines 159-161: join(timeout=0.5) gives up.  A pass of the loop takes
\* 70 ms outside the callback, so only a thread inside the callback can
\* outlast the timeout.
StopJoinTimeout ==
    /\ callpc = "join"
    /\ mon[THREAD].pc = "cb"
    /\ callpc' = "idle"
    /\ THREAD' = 0
    /\ UNCHANGED <<es_pin, RUN, ON_FAULT, FAULT_LATCH, mon, cf_v1, cf_ret, cb_calls,
                   otherThanEs>>

\* clear_fault, lines 93-95: not latched, return True; else start the read
\* (main.py 93-94 calls it on the operator's 'r').
ClearFault ==
    /\ callpc = "idle"
    /\ IF ~FAULT_LATCH
       THEN callpc' = "idle" /\ cf_ret' = "True"
       ELSE callpc' = "cf_v1" /\ cf_ret' = "unset"
    /\ UNCHANGED <<es_pin, RUN, THREAD, ON_FAULT, FAULT_LATCH, mon, cf_v1, cb_calls,
                   otherThanEs>>

\* Line 95, first sample.
ClearFaultSample1 ==
    /\ callpc = "cf_v1"
    /\ cf_v1' = es_pin
    /\ callpc' = "cf_v2"
    /\ UNCHANGED <<es_pin, RUN, THREAD, ON_FAULT, FAULT_LATCH, mon, cf_ret, cb_calls,
                   otherThanEs>>

\* Line 95, second sample and the test; line 98 when the switch reads pressed.
ClearFaultSample2 ==
    /\ callpc = "cf_v2"
    /\ cf_v1' = 1
    /\ IF _read_high_stable(cf_v1, es_pin) = 1
       THEN callpc' = "cf_set" /\ cf_ret' = cf_ret
       ELSE callpc' = "idle" /\ cf_ret' = "False"
    /\ UNCHANGED <<es_pin, RUN, THREAD, ON_FAULT, FAULT_LATCH, mon, cb_calls,
                   otherThanEs>>

\* Lines 96-97.
ClearFaultSet ==
    /\ callpc = "cf_set"
    /\ FAULT_LATCH' = FALSE
    /\ cf_ret' = "True"
    /\ callpc' = "idle"
    /\ UNCHANGED <<es_pin, RUN, THREAD, ON_FAULT, mon, cf_v1, cb_calls, otherThanEs>>

\* The operator presses the E-stop: the normally closed contact opens and
\* the pin goes LOW.  A new press begins.
EsPress ==
    /\ es_pin = 1
    /\ es_pin' = 0
    /\ cb_calls' = 0
    /\ UNCHANGED <<RUN, THREAD, ON_FAULT, FAULT_LATCH, mon, callpc, cf_v1, cf_ret,
                   otherThanEs>>

\* The operator releases it.
EsRelease ==
    /\ es_pin = 0
    /\ es_pin' = 1
    /\ UNCHANGED <<RUN, THREAD, ON_FAULT, FAULT_LATCH, mon, callpc, cf_v1, cf_ret,
                   cb_calls, otherThanEs>>

\* The module after import, lines 20-24, with the switch released.
InitEs ==
    /\ es_pin = 1
    /\ RUN = FALSE
    /\ THREAD = 0
    /\ ON_FAULT = FALSE
    /\ FAULT_LATCH = FALSE
    /\ mon = [t \in Threads |-> NoThread]
    /\ callpc = "idle"
    /\ cf_v1 = 1
    /\ cf_ret = "unset"
    /\ cb_calls = 0

_monitor_loop ==
    \E t \in Threads :
        \/ MonWhile(t)
        \/ MonSample1(t)
        \/ MonSample2(t)
        \/ MonTest(t)
        \/ MonCallback(t)
        \/ MonSleep(t)

NextEs ==
    \/ _monitor_loop
    \/ StartMonitor
    \/ StopMonitor
    \/ StopJoined
    \/ StopJoinTimeout
    \/ ClearFault
    \/ ClearFaultSample1
    \/ ClearFaultSample2
    \/ ClearFaultSet
    \/ EsPress
    \/ EsRelease

(***************************************************************************)
(* Properties of the E-stop latch                                          *)
(***************************************************************************)
\* C14: on_fault is called at most once per press of the E-stop: never a
\* second time while the switch has been held pressed since the call before.
C14_OncePerPress == cb_calls <= 1

\* C15: the latch is cleared by clear_fault only (its assignment at line
\* 96), never by the monitor loop, so it stays set after a release.
C15_ManualAcknowledgement ==
    [][FAULT_LATCH /\ ~FAULT_LATCH' => ClearFaultSet]_vars

\* C30: clear_fault returns True with the latch clear when it finds the
\* latch clear or its debounced read gives released, and returns False
\* without writing the latch when the read gives pressed; and a set latch
\* does not become clear in a step before and after which the switch is
\* pressed.
C30_ClearFaultAndLatch ==
    [][ /\ ClearFault /\ ~FAULT_LATCH => cf_ret' = "True" /\ ~FAULT_LATCH'
        /\ ClearFaultSample2 /\ _read_high_stable(cf_v1, es_pin) = 1 => callpc' = "cf_set"
        /\ ClearFaultSet => cf_ret' = "True" /\ ~FAULT_LATCH'
        /\ ClearFaultSample2 /\ _read_high_stable(cf_v1, es_pin) = 0 =>
               cf_ret' = "False" /\ FAULT_LATCH' = FAULT_LATCH
        /\ es_pin = 0 /\ es_pin' = 0 /\ FAULT_LATCH => FAULT_LATCH'
      ]_vars

(***************************************************************************)
(* The indicator path: Controller._apply_leds, that is Interlocks.all_ok   *)
(* (src/xavier/interlock.py, src/xavier/gpio.py) followed by               *)
(* LedPanel.apply (src/xavier/leds.py), run by one caller at a time while  *)
(* the interlock inputs change.                                            *)
(***************************************************************************)
\* The inputs in the order all_ok reads them, interlock.py line 22.
Inputs == <<"estop", "door", "hb_in">>

\* GPIO.input(pin) now.
level(x) == CASE x = "estop" -> estop [] x = "door" -> door [] OTHER -> hb_in

\* leds.py lines 35-38.
red(alarm, interlocks_ok, s) == alarm \/ s = "FAULT"
amber(alarm, interlocks_ok, s) == ~interlocks_ok /\ s # "FAULT"
\* Green for Armed whatever the interlocks read.
green_AnyInterlocks(alarm, interlocks_ok, s) == s = "ARMED"
green(alarm, interlocks_ok, s) == s = "ARMED" /\ interlocks_ok
blue(alarm, interlocks_ok, s) == s \in {"EXPOSE", "PREVIEW"}

\* controller.py lines 179-180: the call starts, alarm = self._hv_alarm is
\* taken and all_ok() is entered.
ApplyLeds ==
    /\ lpc = "idle"
    /\ \E a \in BOOLEAN : l_alarm' = a
    /\ samples' = << >>
    /\ lpc' = "v1"
    /\ UNCHANGED <<l_ok, l_state, l_v1, rd, led, estop, door, hb_in, otherThanLed>>

\* gpio.read line 29: the first sample of the input whose turn it is.
ReadSample1 ==
    /\ lpc = "v1"
    /\ l_v1' = level(Inputs[Len(samples) \div 2 + 1])
    /\ samples' = Append(samples, l_v1')
    /\ lpc' = "v2"
    /\ UNCHANGED <<l_alarm, l_ok, l_state, rd, led, estop, door, hb_in, otherThanLed>>

\* gpio.read lines 31-32, the second sample and the result, and the `and`
\* of interlock.py line 22: a read of 0 ends all_ok() with False, the third
\* read of 1 ends it with True, otherwise the next input is read.
ReadSample2 ==
    /\ lpc = "v2"
    /\ LET v2 == level(Inputs[Len(samples) \div 2 + 1])
       IN  /\ samples' = Append(samples, v2)
           /\ rd' = read(l_v1, v2)
    /\ l_v1' = HIGH
    /\ IF rd' = 0
       THEN l_ok' = FALSE /\ lpc' = "apply"
       ELSE IF Len(samples') = 2 * Len(Inputs)
            THEN l_ok' = TRUE /\ lpc' = "apply"
            ELSE l_ok' = l_ok /\ lpc' = "v1"
    /\ UNCHANGED <<l_alarm, l_state, led, estop, door, hb_in, otherThanLed>>

\* controller.py line 181 and leds.py lines 35-40: state = self.state.value
\* is taken, the four values are computed and red is written.
ApplyRed ==
    /\ lpc = "apply"
    /\ \E s \in States :
         /\ l_state' = s
         /\ led' = [led EXCEPT !.red = red(l_alarm, l_ok, s)]
    /\ lpc' = "amber"
    /\ UNCHANGED <<l_alarm, l_ok, l_v1, rd, samples, estop, door, hb_in, otherThanLed>>

\* leds.py line 41.
ApplyAmber ==
    /\ lpc = "amber"
    /\ led' = [led EXCEPT !.amber = amber(l_alarm, l_ok, l_state)]
    /\ lpc' = "green"
    /\ UNCHANGED <<l_alarm, l_ok, l_state, l_v1, rd, samples, estop, door, hb_in,
                   otherThanLed>>

\* leds.py line 42.
ApplyGreen ==
    /\ lpc = "green"
    /\ led' = [led EXCEPT !.green = green(l_alarm, l_ok, l_state)]
    /\ lpc' = "blue"
    /\ UNCHANGED <<l_alarm, l_ok, l_state, l_v1, rd, samples, estop, door, hb_in,
                   otherThanLed>>

\* leds.py line 43; apply returns.
ApplyBlue ==
    /\ lpc = "blue"
    /\ led' = [led EXCEPT !.blue = blue(l_alarm, l_ok, l_state)]
    /\ lpc' = "idle"
    /\ UNCHANGED <<l_alarm, l_ok, l_state, l_v1, rd, samples, estop, door, hb_in,
                   otherThanLed>>

\* LedPanel.__init__, lines 23-25: the four pins LOW; no call made yet.
InitLed ==
    /\ lpc = "idle"
    /\ l_alarm = FALSE
    /\ l_ok = FALSE
    /\ l_state = "none"
    /\ l_v1 = HIGH
    /\ rd = -1
    /\ samples = << >>
    /\ led = [red |-> FALSE, amber |-> FALSE, green |-> FALSE, blue |-> FALSE]

NextLed ==
    \/ ApplyLeds
    \/ ReadSample1
    \/ ReadSample2
    \/ ApplyRed
    \/ ApplyAmber
    \/ ApplyGreen
    \/ ApplyBlue
    \/ EstopChanges
    \/ DoorChanges
    \/ HeartbeatChanges

(***************************************************************************)
(* Properties of the indicator path                                        *)
(***************************************************************************)
\* C18: when apply has returned, red is lit iff alarm or Fault, amber iff
\* interlocks not ok and not Fault, green iff Armed and interlocks ok, blue
\* iff Expose or Preview; green and blue are not both lit, and amber is not
\* lit in Fault.
C18_LedPolicy ==
    lpc = "idle" /\ l_state # "none" =>
        /\ led.red = (l_alarm \/ l_state = "FAULT")
        /\ led.amber = (~l_ok /\ l_state # "FAULT")
        /\ led.green = (l_state = "ARMED" /\ l_ok)
        /\ led.blue = (l_state \in {"EXPOSE", "PREVIEW"})
        /\ ~(led.green /\ led.blue)
        /\ (l_state = "FAULT" => ~led.amber)

\* apply has returned for Armed with the interlocks not ok and the alarm on:
\* red and amber lit, green and blue dark.
C18_Witness ==
    /\ lpc = "idle" /\ l_state = "ARMED" /\ ~l_ok /\ l_alarm
    /\ led = [red |-> TRUE, amber |-> TRUE, green |-> FALSE, blue |-> FALSE]

\* C19: a debounced read returns 1 iff both of its samples are HIGH, and
\* all_ok() is true iff the three reads were all made and all returned 1.
C19_DebouncedAnd ==
    /\ lpc # "v2" /\ Len(samples) > 0 =>
           (rd = 1 <=> samples[Len(samples) - 1] = HIGH /\ samples[Len(samples)] = HIGH)
    /\ lpc \notin {"v1", "v2"} /\ l_state # "none" =>
           (l_ok <=> /\ Len(samples) = 2 * Len(Inputs)
                     /\ \A i \in 1..Len(samples) : samples[i] = HIGH)

\* all_ok() has returned False from a door read whose samples disagree,
\* after an E-stop read of two HIGH samples.
C19_Witness ==
    /\ lpc = "apply" /\ samples = <<HIGH, HIGH, HIGH, LOW>> /\ rd = 0 /\ ~l_ok

(***************************************************************************)
(* _loop_hv line by line                        controller.py 151-169      *)
(*                                                                         *)
(* The HV monitor thread with its locals and its notifications, against    *)
(* the command thread and the interlock inputs.  Config.adc holds          *)
(* cut_hv_on_alarm as a plain bool; the value is read on every pass and    *)
(* both values are run.                                                    *)
(***************************************************************************)
\* Lines 154-160: the sample; alarm = v >= threshold, self._hv_alarm = alarm.
HvmSample ==
    /\ hmpc = "sample"
    /\ \E alarm \in BOOLEAN :
         /\ hv_alarm' = alarm
         /\ alarms' = IF alarms = << >> THEN <<alarm>> ELSE <<hv_alarm, alarm>>
    /\ alarm_noted' = FALSE
    /\ hmpc' = "test"
    /\ UNCHANGED <<state, outputs, prev_alarm, owed, otherThanHvm>>

\* Line 154 when self.adc.read_volts() raises: MCP3008.read_volts
\* (v_reader.py 30-39) lets an error of spi.xfer2 through, _loop_hv has no
\* handler, and the thread ends.
HvmReadFails ==
    /\ hmpc = "sample"
    /\ hmpc' = "dead"
    /\ UNCHANGED <<state, outputs, hv_alarm, prev_alarm, alarms, alarm_noted, owed,
                   otherThanHvm>>

\* The test of line 162 without its state condition.
HvmTest_AnyState(cut) ==
    /\ hmpc = "test"
    /\ IF hv_alarm /\ cut
         THEN OutputsLow /\ hmpc' = "fset"
         ELSE UNCHANGED outputs /\ hmpc' = "edge"
    /\ UNCHANGED <<state, hv_alarm, prev_alarm, alarms, alarm_noted, owed, otherThanHvm>>

\* Lines 162-163 with cfg.adc.cut_hv_on_alarm = cut: on alarm in Expose or
\* Preview, _hv_off() and the output writes of _fault (197-199).
HvmTest(cut) ==
    /\ hmpc = "test"
    /\ IF hv_alarm /\ cut /\ state \in {"EXPOSE", "PREVIEW"}
         THEN OutputsLow /\ hmpc' = "fset"
         ELSE UNCHANGED outputs /\ hmpc' = "edge"
    /\ UNCHANGED <<state, hv_alarm, prev_alarm, alarms, alarm_noted, owed, otherThanHvm>>

\* Line 200 in that call of _fault.
HvmFaultSet ==
    /\ hmpc = "fset"
    /\ state' = "FAULT"
    /\ owed' = IF state = "FAULT" THEN "none" ELSE IF pc = "idle" THEN "idle" ELSE "busy"
    /\ hmpc' = "fnote"
    /\ UNCHANGED <<outputs, hv_alarm, prev_alarm, alarms, alarm_noted, otherThanHvm>>

\* Lines 201-202: _notify reads self.state (188) when it runs.
HvmFaultNotify ==
    /\ hmpc = "fnote"
    /\ owed' = "none"
    /\ hmpc' = "edge"
    /\ UNCHANGED <<state, outputs, hv_alarm, prev_alarm, alarms, alarm_noted, otherThanHvm>>

\* A loop that notifies the alarm state on every sample.
HvmEdge_EverySample ==
    /\ hmpc = "edge"
    /\ alarm_noted' = TRUE
    /\ prev_alarm' = Py(hv_alarm)
    /\ hmpc' = "sleep"
    /\ UNCHANGED <<state, outputs, hv_alarm, alarms, owed, otherThanHvm>>

\* Lines 165-167.
HvmEdge ==
    /\ hmpc = "edge"
    /\ IF prev_alarm = "None" \/ Py(hv_alarm) # prev_alarm
         THEN alarm_noted' = TRUE /\ prev_alarm' = Py(hv_alarm)
         ELSE UNCHANGED <<alarm_noted, prev_alarm>>
    /\ hmpc' = "sleep"
    /\ UNCHANGED <<state, outputs, hv_alarm, alarms, owed, otherThanHvm>>

\* Line 169: sample_period_s has elapsed.
HvmSleep ==
    /\ hmpc = "sleep"
    /\ hmpc' = "sample"
    /\ UNCHANGED <<state, outputs, hv_alarm, prev_alarm, alarms, alarm_noted, owed,
                   otherThanHvm>>

\* Lines 46 and 152.
InitHvm ==
    /\ hmpc = "sample"
    /\ hv_alarm = FALSE
    /\ prev_alarm = "None"
    /\ alarms = << >>
    /\ alarm_noted = FALSE
    /\ owed = "none"

NextHvm ==
    \/ HvmSample
    \/ HvmReadFails
    \/ \E cut \in BOOLEAN : HvmTest(cut)
    \/ HvmFaultSet
    \/ HvmFaultNotify
    \/ HvmEdge
    \/ HvmSleep
    \/ Command
    \/ EstopChanges
    \/ DoorChanges
    \/ HeartbeatChanges

(***************************************************************************)
(* Properties of the HV monitor                                            *)
(***************************************************************************)
\* C21: a pass whose sample has the alarm, with cut-on-alarm enabled and the
\* state Expose or Preview, writes HV off and sets Fault before the next
\* sample; in any other case no step of the pass changes the state or the
\* HV relay.
C21_CutOnAlarm ==
    [][ /\ \A cut \in BOOLEAN : HvmTest(cut) =>
               IF hv_alarm /\ cut /\ state \in {"EXPOSE", "PREVIEW"}
                 THEN ~hv' /\ hmpc' = "fset"
                 ELSE hmpc' = "edge" /\ UNCHANGED <<state, hv>>
        /\ hmpc = "fset" /\ hmpc' # "fset" => state' = "FAULT"
        /\ hmpc' = "sample" /\ hmpc # "sample" => hmpc = "sleep"
        /\ HvmSample \/ HvmEdge \/ HvmSleep \/ HvmFaultNotify => UNCHANGED <<state, hv>>
      ]_vars

\* The monitor has cut HV and set Fault on an alarm during an exposure.
C21_Witness ==
    /\ hmpc = "fnote" /\ hv_alarm /\ state = "FAULT" /\ ~hv
    /\ cmd = "expose" /\ pc = "e_hold"

\* C24: the state does not change again before the change to Fault made by
\* the HV monitor has been notified.
C24_NotifiedBeforeNextChange ==
    [][owed = "idle" => state' = state]_vars

\* C25: a sample produces an alarm-state notification only if its alarm
\* differs from the alarm of the sample before it; the first sample has
\* none before it (prev_alarm is None) and is notified.
C25_AlarmEdgesOnly ==
    alarm_noted => Len(alarms) = 1 \/ alarms[1] # alarms[2]

\* The alarm has risen between two samples and the rise has been notified.
C25_Witness ==
    hmpc = "sleep" /\ alarms = <<FALSE, TRUE>> /\ alarm_noted /\ prev_alarm = "True"

(***************************************************************************)
(* The limit-driven actuator calls line by line        stepper_Motor.py    *)
(* One call runs at a time, in the thread that made it.  The poll of the   *)
(* limit input and the step that follows it are separate steps, and the    *)
(* input may change between them.  lim_in is the pin the call in progress  *)
(* polls: SW2 (GPIO 18) for the close, SW1 (GPIO 17) for the open, LIMIT3  *)
(* (GPIO 22) for the Axis 2 homing; at a call it has either level.         *)
(***************************************************************************)
\* Counts of steps are told apart up to this many; the loops go on.
MaxSteps == 2

\* stepper_Motor.py 60.
FULL_TRAVEL_STEPS == 6895

\* A count that is kept up to MaxSteps.
Counted(n) == IF n < MaxSteps THEN n + 1 ELSE MaxSteps

\* The positions at which a call polls a limit input.
Polling == {"m1f", "m1b", "m2h"}

\* A call of one of the three functions that drive until a limit, made
\* by a caller with no call in progress.
CallUntilLimit ==
    /\ axpc = "idle"
    /\ axpc' \in Polling
    /\ lim_in' \in {0, 1}
    /\ steps_taken' = 0
    /\ sent' = 0
    /\ after' = 0
    /\ UNCHANGED <<m2_index, up_i, otherThanAx>>

\* The loop test of a drive-until-limit call reading the input once the
\* call is under way only.
LimitPoll_AfterFirstStep(at, step) ==
    /\ axpc = at
    /\ axpc' = IF lim_in = 1 \/ sent = 0 THEN step ELSE "idle"
    /\ UNCHANGED <<lim_in, m2_index, steps_taken, up_i, sent, after, otherThanAx>>

\* The loop test of a drive-until-limit call, lines 33, 44 and 103:
\* while GPIO.input(...) == 1.
LimitPoll(at, step) ==
    /\ axpc = at
    /\ axpc' = IF lim_in = 1 THEN step ELSE "idle"
    /\ UNCHANGED <<lim_in, m2_index, steps_taken, up_i, sent, after, otherThanAx>>

\* What every step records.
Issued ==
    /\ sent' = Counted(sent)
    /\ after' = IF lim_in = 0 THEN Counted(after) ELSE after

\* motor1_forward_until_switch2, line 33.
Motor1ForwardPoll == LimitPoll("m1f", "m1f_w")

\* Lines 34-35: ser.write(b"M1F\n") and the sleep.
Motor1ForwardWrite ==
    /\ axpc = "m1f_w"
    /\ Issued
    /\ axpc' = "m1f"
    /\ UNCHANGED <<lim_in, m2_index, steps_taken, up_i, otherThanAx>>

\* motor1_backward_until_switch1, line 44.
Motor1BackwardPoll == LimitPoll("m1b", "m1b_w")

\* Lines 45-46: ser.write(b"M1B\n") and the sleep.
Motor1BackwardWrite ==
    /\ axpc = "m1b_w"
    /\ Issued
    /\ axpc' = "m1b"
    /\ UNCHANGED <<lim_in, m2_index, steps_taken, up_i, otherThanAx>>

\* motor2_step (86-95): the new m2_index; the pins take SEQ[m2_index].
motor2_step(index, direction) == (index + direction) % 8

\* motor2_home_to_limit3, line 103.
Motor2HomePoll == LimitPoll("m2h", "m2h_s")

\* Lines 104-105: motor2_step(+1); steps_taken += 1.
Motor2HomeStep ==
    /\ axpc = "m2h_s"
    /\ m2_index' = motor2_step(m2_index, 1)
    /\ steps_taken' = Counted(steps_taken)
    /\ Issued
    /\ axpc' = "m2h"
    /\ UNCHANGED <<lim_in, up_i, otherThanAx>>

\* A call of motor2_move_full_up (111-113), which polls no input.
CallMoveFullUp ==
    /\ axpc = "idle"
    /\ axpc' = "m2u"
    /\ up_i' = 0
    /\ sent' = 0
    /\ after' = 0
    /\ UNCHANGED <<lim_in, m2_index, steps_taken, otherThanAx>>

\* The for loop counting one iteration short.
Motor2UpStep_OneShort ==
    /\ axpc = "m2u"
    /\ IF up_i < FULL_TRAVEL_STEPS - 1
         THEN /\ m2_index' = motor2_step(m2_index, -1)
              /\ up_i' = up_i + 1
              /\ sent' = sent + 1
              /\ UNCHANGED axpc
         ELSE /\ axpc' = "idle"
              /\ UNCHANGED <<m2_index, up_i, sent>>
    /\ UNCHANGED <<lim_in, steps_taken, after, otherThanAx>>

\* Lines 115-118: for _ in range(FULL_TRAVEL_STEPS): motor2_step(-1); when
\* the range is used up the call returns.
Motor2UpStep ==
    /\ axpc = "m2u"
    /\ IF up_i < FULL_TRAVEL_STEPS
         THEN /\ m2_index' = motor2_step(m2_index, -1)
              /\ up_i' = up_i + 1
              /\ sent' = sent + 1
              /\ UNCHANGED axpc
         ELSE /\ axpc' = "idle"
              /\ UNCHANGED <<m2_index, up_i, sent>>
    /\ UNCHANGED <<lim_in, steps_taken, after, otherThanAx>>

\* The switch the call in progress drives to is pressed or released.
LimitChanges ==
    /\ axpc \in Polling \cup {"m1f_w", "m1b_w", "m2h_s"}
    /\ lim_in' = 1 - lim_in
    /\ after' = 0
    /\ UNCHANGED <<axpc, m2_index, steps_taken, up_i, sent, otherThanAx>>

\* stepper_Motor after import (83-84), no call made yet.
InitAx ==
    /\ axpc = "idle"
    /\ lim_in = 1
    /\ m2_index = 0
    /\ steps_taken = 0
    /\ up_i = 0
    /\ sent = 0
    /\ after = 0

\* The steps of a drive-until-limit call.
UntilLimit ==
    \/ Motor1ForwardPoll \/ Motor1ForwardWrite
    \/ Motor1BackwardPoll \/ Motor1BackwardWrite
    \/ Motor2HomePoll \/ Motor2HomeStep

NextLim == CallUntilLimit \/ UntilLimit \/ LimitChanges

NextAx == NextLim \/ CallMoveFullUp \/ Motor2UpStep

(***************************************************************************)
(* Properties of the limit-driven calls                                    *)
(***************************************************************************)
\* A step command of Axis 1 is written.
Motor1Write == Motor1ForwardWrite \/ Motor1BackwardWrite

\* An Axis 1 call returns.
Motor1Returns == axpc \in {"m1f", "m1f_w", "m1b", "m1b_w"} /\ axpc' = "idle"

\* C32: every step command of an Axis 1 drive-until-limit call directly
\* follows a poll of its limit switch that read it not asserted; a poll
\* that reads it asserted sends nothing more and returns, so with the
\* switch read asserted at the first poll nothing is sent; and the call
\* returns from such a poll only.
C32_PollBeforeEveryCommand ==
    [][ /\ axpc' \in {"m1f_w", "m1b_w"} /\ axpc' # axpc =>
               (Motor1ForwardPoll \/ Motor1BackwardPoll) /\ lim_in = 1
        /\ Motor1Write => axpc' \in {"m1f", "m1b"}
        /\ (Motor1ForwardPoll \/ Motor1BackwardPoll) /\ lim_in = 0 =>
               axpc' = "idle" /\ sent' = sent
        /\ sent' # sent /\ axpc \notin {"idle", "m2h_s"} => Motor1Write
        /\ Motor1Returns =>
               (Motor1ForwardPoll \/ Motor1BackwardPoll) /\ lim_in = 0 /\ lim_in' = 0
      ]_vars

\* An Axis 1 close has polled its switch not asserted and sent one
\* command, the switch has asserted meanwhile, and the close is at the
\* poll that will end it.
C32_Witness == axpc = "m1f" /\ sent = 1 /\ after = 1 /\ lim_in = 0

\* C33: a drive-until-limit call issues at most one step with its limit
\* input asserted, and every such call that has begun returns.
C33_CallsTerminate ==
    /\ [](after <= 1)
    /\ (axpc # "idle" ~> axpc = "idle")

\* C34: the homing of Axis 2 steps forward only, one phase position a
\* step, and the count it returns is the number of steps it issued, zero
\* when its first poll reads the switch asserted; the traverse steps
\* backward only, one phase position a step, and returns when it has
\* issued FULL_TRAVEL_STEPS steps.
C34_AlignAndTraverse ==
    /\ [](axpc \in {"m2h", "m2h_s"} => steps_taken = sent)
    /\ [][ /\ Motor2HomeStep => m2_index' = (m2_index + 1) % 8
           /\ Motor2HomePoll /\ lim_in = 0 => axpc' = "idle" /\ steps_taken' = sent
           /\ Motor2UpStep /\ axpc' = "m2u" =>
                  m2_index' = (m2_index + 7) % 8 /\ sent' = sent + 1
           /\ axpc = "m2u" /\ axpc' = "idle" => sent = FULL_TRAVEL_STEPS
           /\ m2_index' # m2_index =>
                  IF axpc = "m2u" THEN m2_index = (m2_index' + 1) % 8
                                  ELSE axpc = "m2h_s" /\ m2_index' = (m2_index + 1) % 8
         ]_vars

\* The homing has taken one step from phase 0 to its switch, and the
\* traverse after it has returned.
C34_Witness ==
    /\ axpc = "idle" /\ steps_taken = 1 /\ up_i = FULL_TRAVEL_STEPS
    /\ sent = FULL_TRAVEL_STEPS /\ m2_index = (1 + 8 * FULL_TRAVEL_STEPS - FULL_TRAVEL_STEPS) % 8

(***************************************************************************)
(* The HV reading                               adc_reader.py              *)
(* Voltages are carried as integers: an ADC voltage in units of 1/32767 mV *)
(* and an HV value in units of 1/32767 V, 32767 being the denominator of   *)
(* LSB.  The floating-point results differ from these by rounding far      *)
(* smaller than the distance of any code from a limit of the safe window.  *)
(***************************************************************************)
\* adc_reader.py 34: the denominator of LSB.
LSB_DEN == 32767
\* adc_reader.py 33: ADC_FS = 6.144 V, in mV.
ADC_FS == 6144
\* adc_reader.py 39: 50000 / 5.0.
DIVIDER_RATIO == 10000
\* adc_reader.py 41-42.
HV_MIN_SAFE == 35000
HV_MAX_SAFE == 55000
\* Codes the conversion register can give (68-69 put the two bytes back in
\* order and take them as unsigned): zero, the two codes around each limit
\* of the safe window, positive full scale, and the most negative code.
AdcCodes == {0, 18666, 18667, 29332, 29333, 32767, 32768}

\* _read_adc_voltage (50-78): raw * LSB, or -1.0 when the bus raises.
_read_adc_voltage(raw, io_error) ==
    IF io_error THEN -1 * 1000 * LSB_DEN ELSE raw * ADC_FS

\* read_hv_voltage (84-97).
read_hv_voltage(v) ==
    IF v < 0 THEN -1 * LSB_DEN ELSE v * (DIVIDER_RATIO \div 1000)

\* hv_status_ok (103-116), its first component.
hv_status_ok(hv_v) ==
    IF hv_v < 0 THEN FALSE
    ELSE IF hv_v < HV_MIN_SAFE * LSB_DEN THEN FALSE
    ELSE IF hv_v > HV_MAX_SAFE * LSB_DEN THEN FALSE
    ELSE TRUE

\* A caller reads the HV and judges it: hv = read_hv_voltage();
\* ok, msg = hv_status_ok(hv) (Interface.py 493-494).
AdcRead ==
    /\ \E raw \in AdcCodes, io_error \in BOOLEAN :
         /\ adc_in' = [raw |-> raw, err |-> io_error]
         /\ raw_v' = _read_adc_voltage(raw, io_error)
    /\ hv_read' = read_hv_voltage(raw_v')
    /\ hv_ok' = hv_status_ok(hv_read')
    /\ UNCHANGED otherThanAdc

\* adc_reader after import, no read made.
InitAdc ==
    /\ adc_in = [raw |-> -1, err |-> FALSE]
    /\ raw_v = 0
    /\ hv_read = 0
    /\ hv_ok = FALSE

\* The HV monitor of a controller that is given no command.
LoopHvIdle ==
    \/ HvmSample
    \/ HvmReadFails
    \/ \E cut \in BOOLEAN : HvmTest(cut)
    \/ HvmEdge
    \/ HvmSleep

NextAdc == AdcRead \/ LoopHvIdle

\* The HV value of a code, as the real number times 32767.
TrueHv(raw) == raw * ADC_FS * (DIVIDER_RATIO \div 1000)

\* C35: a read on which the bus raised gives a negative ADC voltage, a
\* negative HV value and not ok; a reading is ok exactly if the bus did not
\* raise and the HV value lies in 35000..55000 V; and the HV monitor of
\* the controller is never ended by a failed read.
C35_FailedReadNotOk ==
    /\ adc_in.err => raw_v < 0 /\ hv_read < 0 /\ ~hv_ok
    /\ adc_in.raw >= 0 =>
           (hv_ok <=> /\ ~adc_in.err
                      /\ HV_MIN_SAFE * LSB_DEN <= TrueHv(adc_in.raw)
                      /\ TrueHv(adc_in.raw) <= HV_MAX_SAFE * LSB_DEN)
    /\ hmpc # "dead"

(***************************************************************************)
(* The console program                          src/xavier/main.py         *)
(* Its main thread runs the menu, run_preview, run_photo and the emergency *)
(* hold against the monitor thread of gpio_estop, whose fault callback is  *)
(* _on_estop_fault.  HV is the relay of relay.py on GPIO 23.  The operator *)
(* does not quit ('q' and Ctrl-C are not taken) and does not type 'r' at    *)
(* the menu.                                                               *)
(***************************************************************************)
otherThanConEs == <<ctlVars, wdVars, motVars, ledVars, hvmVars, axVars, adcVars,
                  gxVars>>

\* main, line 180: gpio_estop.start_monitor(_on_estop_fault).
MainStartMonitor == mpc = "main" /\ ~RUN /\ StartMonitor

\* Line 184, the guard at the head of the loop.
MainGuard ==
    /\ mpc = "main" /\ RUN
    /\ chk' = FAULT_LATCH
    /\ IF FAULT_LATCH
         THEN mpc' = "hold_off" /\ holder' = "main"
         ELSE mpc' = "menu" /\ holder' = holder
    /\ UNCHANGED <<relay, esVars, otherThanConEs>>

\* Lines 188-193 and 204: the choice and the second faulted() of the branch
\* taken; any choice but "1" and "2" goes round the loop.
MainChoice ==
    /\ mpc = "menu"
    /\ chk' = FAULT_LATCH
    /\ \E choice \in {"1", "2", "x"} :
         mpc' = IF FAULT_LATCH \/ choice = "x" THEN "main"
                ELSE IF choice = "1" THEN "pv_chk" ELSE "ph_chk"
    /\ UNCHANGED <<holder, relay, esVars, otherThanConEs>>

\* A faulted() test of the main thread that goes to `no` when the latch is
\* clear and to `yes` when it is set.
FaultedAt(at, no, yes) ==
    /\ mpc = at
    /\ chk' = FAULT_LATCH
    /\ mpc' = IF FAULT_LATCH THEN yes ELSE no
    /\ UNCHANGED <<holder, relay, esVars, otherThanConEs>>

\* An hv_on() or hv_off() of the main thread (relay.py 22-31).
RelayAt(at, lvl, next) ==
    /\ mpc = at
    /\ relay' = lvl
    /\ mpc' = next
    /\ UNCHANGED <<holder, chk, esVars, otherThanConEs>>

\* run_preview, lines 103-105.
RunPreviewChk == FaultedAt("pv_chk", "pv_on", "main")

\* Line 106.
RunPreviewHvOn == RelayAt("pv_on", RELAY_ON, "pv_cam")

\* Lines 108-109: start_camera returns (the operator ends the preview, or
\* should_stop is true) or raises.
RunPreviewCamera ==
    /\ mpc = "pv_cam"
    /\ mpc' = "pv_fin"
    /\ UNCHANGED <<holder, relay, chk, esVars, otherThanConEs>>

\* Lines 110-112.
RunPreviewFinally == RelayAt("pv_fin", RELAY_OFF, "main")

\* run_photo, lines 115-117.
RunPhotoChk == FaultedAt("ph_chk", "ph_top", "main")

\* Lines 121-123: the emergency hold is entered.
RunPhotoTop ==
    /\ mpc = "ph_top"
    /\ chk' = FAULT_LATCH
    /\ IF FAULT_LATCH
         THEN mpc' = "hold_off" /\ holder' = "photo_top"
         ELSE mpc' = "ph_input" /\ holder' = holder
    /\ UNCHANGED <<relay, esVars, otherThanConEs>>

\* Lines 125-127: ENTER, or 'b' to go back.
RunPhotoInput ==
    /\ mpc = "ph_input"
    /\ \E back \in BOOLEAN : mpc' = IF back THEN "main" ELSE "ph_arm"
    /\ UNCHANGED <<holder, relay, chk, esVars, otherThanConEs>>

\* Lines 131-132.
RunPhotoArm == FaultedAt("ph_arm", "ph_on", "ph_exc")

\* Line 134.
RunPhotoHvOn == RelayAt("ph_on", RELAY_ON, "ph_pre")

\* Lines 137-141: a pass of the pre-roll loop that finds the latch set, or
\* its last pass.
RunPhotoPreRoll == FaultedAt("ph_pre", "ph_capchk", "ph_exc")

\* Lines 143-144.
RunPhotoCaptureChk == FaultedAt("ph_capchk", "ph_cap", "ph_exc")

\* Line 146: capture_still returns or raises.
RunPhotoCapture ==
    /\ mpc = "ph_cap"
    /\ \E raised \in BOOLEAN : mpc' = IF raised THEN "ph_exc" ELSE "ph_post"
    /\ UNCHANGED <<holder, relay, chk, esVars, otherThanConEs>>

\* Lines 149-154, as the pre-roll.
RunPhotoPostHold == FaultedAt("ph_post", "ph_fin", "ph_exc")

\* Lines 156-163: hv_off() and the call of the emergency hold.
RunPhotoExcept ==
    /\ mpc = "ph_exc"
    /\ relay' = RELAY_OFF
    /\ holder' = "photo_exc"
    /\ mpc' = "hold_off"
    /\ UNCHANGED <<chk, esVars, otherThanConEs>>

\* Lines 166-172 when the try block ran to its end.
RunPhotoFinally == RelayAt("ph_fin", RELAY_OFF, "ph_again")

\* Lines 174-176.
RunPhotoAgain ==
    /\ mpc = "ph_again"
    /\ \E again \in BOOLEAN : mpc' = IF again THEN "ph_top" ELSE "main"
    /\ UNCHANGED <<holder, relay, chk, esVars, otherThanConEs>>

\* Lines 166-172 on the way out of the `return` of line 164.
RunPhotoFinallyReturn == RelayAt("ph_finret", RELAY_OFF, "main")

\* emergency_hold_blocking, lines 83-88.
HoldSafe == RelayAt("hold_off", RELAY_OFF, "hold_in")

\* Lines 89-93: the operator types 'r' and clear_fault() is called, or
\* something else and the loop goes round.  cf_ret is "unset" until
\* clear_fault has returned.
HoldInput ==
    /\ mpc = "hold_in" /\ callpc = "idle"
    /\ \E r \in BOOLEAN :
         IF r THEN mpc' = "hold_cf" /\ cf_ret' = "unset"
              ELSE mpc' = "hold_off" /\ cf_ret' = cf_ret
    /\ UNCHANGED <<holder, relay, chk, es_pin, RUN, THREAD, ON_FAULT, FAULT_LATCH,
                   mon, callpc, cf_v1, cb_calls, otherThanConEs>>

\* Line 93: clear_fault() is entered.
HoldClearFault == mpc = "hold_cf" /\ cf_ret = "unset" /\ ClearFault

\* Lines 93-99: clear_fault() has returned.
HoldCleared ==
    /\ mpc = "hold_cf" /\ callpc = "idle" /\ cf_ret # "unset"
    /\ IF cf_ret = "True"
         THEN /\ mpc' = IF holder = "photo_exc" THEN "ph_finret" ELSE "main"
              /\ holder' = "none"
         ELSE mpc' = "hold_off" /\ holder' = holder
    /\ UNCHANGED <<relay, chk, esVars, otherThanConEs>>

\* _on_estop_fault (24-35) called from the monitor thread at
\* gpio_estop.py 114-119: hv_off().
OnEstopFault(t) ==
    /\ mon[t].pc = "cb"
    /\ ON_FAULT
    /\ mon' = [mon EXCEPT ![t] = [@ EXCEPT !.pc = "sleep"]]
    /\ cb_calls' = IF cb_calls < 2 THEN cb_calls + 1 ELSE cb_calls
    /\ relay' = RELAY_OFF
    /\ UNCHANGED <<mpc, holder, chk, es_pin, RUN, THREAD, ON_FAULT, FAULT_LATCH,
                   callpc, cf_v1, cf_ret, otherThanConEs>>

\* The monitor thread of the console program.
ConsoleMonitor ==
    \E t \in Threads :
        \/ MonWhile(t)
        \/ MonSample1(t)
        \/ MonSample2(t)
        \/ MonTest(t)
        \/ OnEstopFault(t)
        \/ MonSleep(t)

\* The program after its imports: relay.py 13 makes GPIO 23 an output at
\* the level it has, LOW after boot, and writes nothing.
InitCon ==
    /\ mpc = "main"
    /\ holder = "none"
    /\ relay = LOW
    /\ chk = FALSE

run_preview == RunPreviewChk \/ RunPreviewHvOn \/ RunPreviewCamera \/ RunPreviewFinally

run_photo ==
    \/ RunPhotoChk \/ RunPhotoTop \/ RunPhotoInput \/ RunPhotoArm \/ RunPhotoHvOn
    \/ RunPhotoPreRoll \/ RunPhotoCaptureChk \/ RunPhotoCapture \/ RunPhotoPostHold
    \/ RunPhotoExcept \/ RunPhotoFinally \/ RunPhotoAgain \/ RunPhotoFinallyReturn

emergency_hold_blocking ==
    \/ HoldSafe \/ HoldInput \/ HoldClearFault
    \/ ClearFaultSample1 \/ ClearFaultSample2 \/ ClearFaultSet
    \/ HoldCleared

NextCon ==
    \/ MainStartMonitor \/ MainGuard \/ MainChoice
    \/ run_preview
    \/ run_photo
    \/ emergency_hold_blocking
    \/ ConsoleMonitor
    \/ EsPress
    \/ EsRelease

(***************************************************************************)
(* Properties of the console program                                       *)
(***************************************************************************)
\* run_preview() or run_photo() returns to main.
RunReturns ==
    /\ mpc' = "main"
    /\ \/ mpc \in {"pv_chk", "pv_fin", "ph_chk", "ph_input", "ph_again", "ph_finret"}
       \/ mpc = "hold_cf" /\ holder = "photo_top"

\* C38: HV is de-energized whenever run_photo() or run_preview() returns;
\* an hv_on() is made only after a faulted() that read false; and HV is
\* de-energized when a cycle has ended, whatever the E-stop did since the
\* check before hv_on().
C38_HvOffOnEveryReturn ==
    /\ [][RunReturns => relay' = RELAY_OFF]_vars
    /\ [][relay' = RELAY_ON /\ relay # RELAY_ON =>
              (RunPreviewHvOn \/ RunPhotoHvOn) /\ ~chk]_vars
    /\ [](mpc = "ph_again" => relay = RELAY_OFF)

(***************************************************************************)
(* The X-ray capture of the GUI and its ADC check   Interface.py           *)
(* on_xray and the slot of adc_timer, check_adc_safety, both run on the Qt *)
(* main thread: a slot runs only while that thread is in an event loop,    *)
(* which inside on_xray is the case at processEvents (694, 696, before     *)
(* hv_active is set) and in the error box of line 718, and not while a     *)
(* tray button drives Axis 1.  The timer is taken to be running all the    *)
(* time.                                                                   *)
(***************************************************************************)
gxRest == <<app, switches, ser, m1pc, m1caller, m3Vars, motor3_is_home,
            has_closed_once, armed, mpc, holder, chk,
            ctlVars, wdVars, esVars, ledVars, hvmVars, axVars, adcVars>>

\* on_xray, lines 670-706: the two refusals, or hv_active = True.
OnXray ==
    /\ app = "gui" /\ xpc = "idle" /\ m1pc = "idle"
    /\ IF hv_fault_active \/ ~armed
         THEN UNCHANGED <<xpc, hv_active, evaluated>>
         ELSE /\ hv_active' = TRUE
              /\ evaluated' = FALSE
              /\ xpc' = "hv_on"
    /\ UNCHANGED <<last_check, relay, hv_fault_active, gxRest>>

\* Line 707.
XrayHvOn ==
    /\ xpc = "hv_on"
    /\ relay' = RELAY_ON
    /\ xpc' = "capture"
    /\ UNCHANGED <<hv_active, evaluated, last_check, hv_fault_active, gxRest>>

\* Lines 708-711: the sleep and the capture, which returns or raises.
XrayCapture ==
    /\ xpc = "capture"
    /\ \E raised \in BOOLEAN : xpc' = IF raised THEN "except" ELSE "finally"
    /\ UNCHANGED <<hv_active, evaluated, last_check, relay, hv_fault_active, gxRest>>

\* Lines 713-716.
XrayExcept ==
    /\ xpc = "except"
    /\ relay' = RELAY_OFF
    /\ hv_active' = FALSE
    /\ xpc' = "box"
    /\ UNCHANGED <<evaluated, last_check, hv_fault_active, gxRest>>

\* Lines 718-721: the error box is closed and on_xray returns.
XrayErrorBox ==
    /\ xpc = "box"
    /\ xpc' = "finally"
    /\ UNCHANGED <<hv_active, evaluated, last_check, relay, hv_fault_active, gxRest>>

\* Lines 723-726.
XrayFinally ==
    /\ xpc = "finally"
    /\ relay' = RELAY_OFF
    /\ hv_active' = FALSE
    /\ xpc' = "idle"
    /\ UNCHANGED <<evaluated, last_check, hv_fault_active, gxRest>>

\* check_adc_safety (488-532), the slot of adc_timer (344-346).
check_adc_safety ==
    /\ app = "gui" /\ xpc \in {"idle", "box"} /\ m1pc = "idle"
    /\ IF ~hv_active
         THEN /\ last_check' = "skipped"
              /\ UNCHANGED <<hv_active, evaluated, relay, hv_fault_active>>
         ELSE \E raw \in AdcCodes, io_error \in BOOLEAN :
                LET ok == hv_status_ok(read_hv_voltage(_read_adc_voltage(raw, io_error)))
                IN  /\ evaluated' = TRUE
                    /\ IF ~ok
                         THEN /\ hv_fault_active' = TRUE
                              /\ relay' = RELAY_OFF
                              /\ hv_active' = FALSE
                              /\ last_check' = "fault"
                         ELSE /\ hv_fault_active' = FALSE
                              /\ last_check' = "ok"
                              /\ UNCHANGED <<relay, hv_active>>
    /\ UNCHANGED <<xpc, gxRest>>

\* check_alignment, the slot of align_timer, and the tray buttons, which
\* run on the same thread.
AlignTimer == xpc = "idle" /\ CheckAlignment
TrayButtons == xpc = "idle" /\ (OnOpen \/ OnClose)

\* The window after __init__ has set its flags (210, 213).
InitGx ==
    /\ xpc = "idle"
    /\ hv_active = FALSE
    /\ evaluated = FALSE
    /\ last_check = "none"

NextGx ==
    \/ GuiInit \/ AlignTimer \/ TrayButtons
    \/ Motor1ForwardStep \/ Motor1BackwardStep
    \/ Sw1Changes \/ Sw2Changes
    \/ OnXray \/ XrayHvOn \/ XrayCapture \/ XrayExcept \/ XrayErrorBox \/ XrayFinally
    \/ check_adc_safety

(***************************************************************************)
(* Properties of the X-ray capture of the GUI                              *)
(***************************************************************************)
\* C39: by the time hv_active goes back to false, check_adc_safety has
\* judged at least one reading taken while it was true; and a check that
\* finds the reading out of band switches HV off and sets hv_fault_active.
C39_CheckedWhileEnergized ==
    /\ [][hv_active /\ ~hv_active' => evaluated']_vars
    /\ [][check_adc_safety /\ last_check' = "fault" =>
              relay' = RELAY_OFF /\ hv_fault_active']_vars

(***************************************************************************)
(* Types                                                                   *)
(***************************************************************************)
TypeOK ==
    /\ state \in States
    /\ hv \in BOOLEAN /\ cam_trigger \in BOOLEAN /\ cam_preview \in BOOLEAN
    /\ preview_deadline \in {"None", "set", "past"}
    /\ estop \in {LOW, HIGH} /\ door \in {LOW, HIGH} /\ hb_in \in {LOW, HIGH}
    /\ arg \in 0..MaxShutter
    /\ ret \in {"none", "true", "false"}
    /\ hbpc \in {"poll", "set", "sleep"}
    /\ hvpc \in {"sample", "set"}
    /\ pvpc \in {"poll", "dchk", "dset", "dl"}
    /\ wdpc \in {"off", "alive", "flag", "pin", "act"}
    /\ pin \in {LOW, HIGH}
    /\ hv_allowed \in BOOLEAN
    /\ alive \in {"unset", "True", "False"}
    /\ shutdown_mode \in {"unset", "True", "False"}
    /\ hv_state \in {-1, LOW, HIGH}
    /\ hbfile \in {"missing", "empty", "ts"}
    /\ hbage \in 0..MaxAge
    /\ flag \in BOOLEAN
    /\ old_flag_removed \in BOOLEAN
    /\ gui \in {"off", "run", "wr", "closing", "crashed"}
    /\ app \in {"none", "lib", "menu", "gui", "off"}
    /\ sw1 \in {LOW, HIGH} /\ sw2 \in {LOW, HIGH}
    /\ ser \in 0..MaxCmds
    /\ m1pc \in {"idle", "fwd", "bwd"}
    /\ m3_index \in 0..7
    /\ m3_total_steps \in {k * M3_STEPS_45 : k \in 0..MaxRotations}
    /\ rot_n \in 0..MaxRotations
    /\ homed \in BOOLEAN /\ motor3_is_home \in BOOLEAN
    /\ has_closed_once \in BOOLEAN /\ armed \in BOOLEAN /\ hv_fault_active \in BOOLEAN
    /\ es_pin \in {LOW, HIGH}
    /\ RUN \in BOOLEAN /\ ON_FAULT \in BOOLEAN /\ FAULT_LATCH \in BOOLEAN
    /\ callpc \in {"idle", "join", "cf_v1", "cf_v2", "cf_set"}
    /\ cf_ret \in {"unset", "True", "False"}
    /\ lpc \in {"idle", "v1", "v2", "apply", "amber", "green", "blue"}
    /\ l_state \in States \cup {"none"}
    /\ rd \in {-1, 0, 1}
    /\ led \in [{"red", "amber", "green", "blue"} -> BOOLEAN]
    /\ hmpc \in {"sample", "test", "fset", "fnote", "edge", "sleep", "dead"}
    /\ hv_alarm \in BOOLEAN /\ alarm_noted \in BOOLEAN
    /\ prev_alarm \in {"None", "True", "False"}
    /\ alarms \in Seq(BOOLEAN) /\ Len(alarms) <= 2
    /\ owed \in {"none", "idle", "busy"}
    /\ axpc \in Polling \cup {"idle", "m1f_w", "m1b_w", "m2h_s", "m2u"}
    /\ lim_in \in {0, 1}
    /\ m2_index \in 0..7
    /\ steps_taken \in 0..MaxSteps /\ after \in 0..MaxSteps
    /\ sent \in 0..FULL_TRAVEL_STEPS
    /\ up_i \in 0..FULL_TRAVEL_STEPS
    /\ adc_in \in [raw : AdcCodes \cup {-1}, err : BOOLEAN]
    /\ raw_v \in Int /\ hv_read \in Int /\ hv_ok \in BOOLEAN
    /\ mpc \in {"main", "menu", "pv_chk", "pv_on", "pv_cam", "pv_fin", "ph_chk",
               "ph_top", "ph_input", "ph_arm", "ph_on", "ph_pre", "ph_capchk",
               "ph_cap", "ph_post", "ph_exc", "ph_fin", "ph_again", "ph_finret",
               "hold_off", "hold_in", "hold_cf"}
    /\ holder \in {"none", "main", "photo_top", "photo_exc"}
    /\ relay \in {LOW, HIGH}
    /\ chk \in BOOLEAN
    /\ xpc \in {"idle", "hv_on", "capture", "except", "box", "finally"}
    /\ hv_active \in BOOLEAN /\ evaluated \in BOOLEAN
    /\ last_check \in {"none", "skipped", "ok", "fault"}

(***************************************************************************)
(* Specifications                                                          *)
(***************************************************************************)
Init == InitCtl /\ InitWd /\ InitMot /\ InitEs /\ InitLed /\ InitHvm /\ InitAx
        /\ InitAdc /\ InitCon /\ InitGx

\* The controller.
Spec == Init /\ [][Next]_vars

\* The watchdog and the GUI process.
SpecWd == Init /\ [][NextWd]_vars

\* The same with a poll iteration that raises.
NextWdError == NextWd \/ WdRuntimeError
SpecWdError == Init /\ [][NextWdError]_vars

\* The actuator subsystem.
SpecMot == Init /\ [][NextMot]_vars

\* The E-stop module.
SpecEs == Init /\ [][NextEs]_vars

\* The indicator path.
SpecLed == Init /\ [][NextLed]_vars

\* The HV monitor line by line.
SpecHvm == Init /\ [][NextHvm]_vars

\* The drive-until-limit calls; the thread of a call in progress goes on
\* running.
SpecLim == Init /\ [][NextLim]_vars /\ WF_vars(UntilLimit)

\* All the limit-driven calls, the Axis 2 traverse included.
SpecAx == Init /\ [][NextAx]_vars

\* The HV reading of adc_reader, and the controller's HV monitor at rest.
SpecAdc == Init /\ [][NextAdc]_vars

\* The console program with the monitor thread of gpio_estop.
SpecCon == Init /\ [][NextCon]_vars

\* The X-ray capture of the GUI and its ADC check.
SpecGx == Init /\ [][NextGx]_vars

====
